---- MODULE Spec2Model ----
(***************************************************************************)
(* Stability360 Actions: the Lambda router (lambda/actions/index.py), the  *)
(* self-sufficiency scoring calculator (scoring_calculator.py) and the     *)
(* resource lookup operation (sophia_resource_lookup.py).                  *)
(*                                                                         *)
(* Representation of Python values.  Every value is a record [t, v]:       *)
(*   t = "null"   None                                                     *)
(*   t = "bool"   v a BOOLEAN                                              *)
(*   t = "int"    v the number times Scale (fixed point, two decimals)     *)
(*   t = "float"  v the number times Scale                                 *)
(*   t = "str"    v the sequence of the string's pieces: one piece per     *)
(*                whitespace character, per character of an identifier     *)
(*                that is matched against UUID_RE, the separator "___" as  *)
(*                one piece, and a whole word otherwise                    *)
(*   t = "json"   a str holding JSON text, v its sequence of tokens        *)
(*   t = "list"   v a sequence of values                                   *)
(*   t = "dict"   v a function from keys (TLA+ strings) to values          *)
(***************************************************************************)
EXTENDS Integers, Sequences, FiniteSets, TLC

VARIABLES
    CONNECT_INSTANCE_ID,  \* module-level configuration, fixed at start-up
    pc,                   \* position of the current invocation of handler
    event,                \* the inbound envelope
    route_type,           \* handler's locals after _extract_route_and_body
    route_key,
    body,
    handler_fn,           \* the resolved operation ("" when none)
    outcome,              \* what handler_fn(body) did: return or raise
    result,               \* the operation's result dict
    response,             \* the envelope handler returns
    exc,                  \* the exception raised inside handler's try block
    raised,               \* the exception that left handler ("" when none)
    writes,               \* update_contact_attributes calls of this invocation
    trace,                \* the order of the invocation's steps
    earlier               \* history: one scoring call of an earlier invocation

vars == <<CONNECT_INSTANCE_ID, pc, event, route_type, route_key, body,
          handler_fn, outcome, result, response, exc, raised, writes, trace,
          earlier>>

-----------------------------------------------------------------------------
(* Python values *)

Scale == 100

Null == [t |-> "null", v |-> FALSE]
B(b) == [t |-> "bool", v |-> b]
PyInt(n) == [t |-> "int", v |-> n * Scale]
PyFloat(hundredths) == [t |-> "float", v |-> hundredths]
Str(pieces) == [t |-> "str", v |-> pieces]
S(word) == [t |-> "str", v |-> <<word>>]
EmptyStr == [t |-> "str", v |-> <<>>]
List(seq) == [t |-> "list", v |-> seq]
Dict(f) == [t |-> "dict", v |-> f]
EmptyMap == [k \in {} |-> Null]

IsStr(x) == x.t \in {"str", "json"}
IsNumber(x) == x.t \in {"int", "float", "bool"}

\* the numeric value (times Scale) of an int, float or bool
NumVal(x) == IF x.t = "bool" THEN (IF x.v THEN Scale ELSE 0) ELSE x.v

\* Python truthiness: bool(x)
Truthy(x) ==
    CASE x.t = "null" -> FALSE
      [] x.t = "bool" -> x.v
      [] x.t \in {"int", "float"} -> x.v # 0
      [] x.t \in {"str", "json", "list"} -> Len(x.v) > 0
      [] x.t = "dict" -> DOMAIN x.v # {}

\* dict.get(key, default)
Get(d, key, default) == IF key \in DOMAIN d THEN d[key] ELSE default

-----------------------------------------------------------------------------
(* str operations *)

Whitespace == {" ", "\n", "\t"}

RECURSIVE LStrip(_)
LStrip(s) ==
    IF Len(s) > 0 /\ s[1] \in Whitespace THEN LStrip(Tail(s)) ELSE s

RECURSIVE RStrip(_)
RStrip(s) ==
    IF Len(s) > 0 /\ s[Len(s)] \in Whitespace
    THEN RStrip(SubSeq(s, 1, Len(s) - 1))
    ELSE s

\* str.strip() on the pieces of a str
strip(s) == RStrip(LStrip(s))

DigitChars == <<"0", "1", "2", "3", "4", "5", "6", "7", "8", "9">>

RECURSIVE Digits(_)
Digits(n) ==
    IF n < 10 THEN <<DigitChars[n + 1]>>
    ELSE Digits(n \div 10) \o <<DigitChars[(n % 10) + 1]>>

Abs(n) == IF n < 0 THEN -n ELSE n

\* repr of a number held in hundredths: "800" for an int, "2.5" / "2.33" /
\* "4.0" for a float
NumPieces(x) ==
    LET a == Abs(x.v)
        sign == IF x.v < 0 THEN <<"-">> ELSE <<>>
        whole == Digits(a \div Scale)
        frac == a % Scale
        decimals == IF frac % 10 = 0 THEN <<DigitChars[(frac \div 10) + 1]>>
                    ELSE <<DigitChars[(frac \div 10) + 1], DigitChars[(frac % 10) + 1]>>
    IN  IF x.t = "int" THEN sign \o whole
        ELSE sign \o whole \o <<".">> \o decimals

RECURSIVE ListPieces(_)
\* str(value): the pieces of the string Python builds for a value
RECURSIVE PyStr(_)
PyStr(x) ==
    CASE x.t = "null" -> <<"None">>
      [] x.t = "bool" -> IF x.v THEN <<"True">> ELSE <<"False">>
      [] x.t \in {"int", "float"} -> NumPieces(x)
      [] x.t = "str" -> x.v
      [] x.t = "json" -> <<"<json text>">>
      [] x.t = "list" -> <<"[">> \o ListPieces(x.v) \o <<"]">>
      [] x.t = "dict" -> <<"{...}">>

ListPieces(seq) ==
    IF Len(seq) = 0 THEN <<>>
    ELSE IF Len(seq) = 1 THEN <<"'">> \o PyStr(seq[1]) \o <<"'">>
    ELSE <<"'">> \o PyStr(seq[1]) \o <<"'", ",", " ">> \o ListPieces(Tail(seq))

-----------------------------------------------------------------------------
(* scoring_calculator.py *)

HOUSING_SITUATION_BASE ==
    [k \in {"homeless", "shelter", "couch_surfing", "temporary", "transitional",
            "renting_unstable", "renting_month_to_month", "renting_stable",
            "owner_with_mortgage", "owner", "owner_no_mortgage"} |->
        CASE k \in {"homeless", "shelter"} -> 1
          [] k \in {"couch_surfing", "temporary", "transitional"} -> 2
          [] k \in {"renting_unstable", "renting_month_to_month"} -> 3
          [] k \in {"renting_stable", "owner_with_mortgage"} -> 4
          [] k \in {"owner", "owner_no_mortgage"} -> 5]

EMPLOYMENT_STATUS_BASE ==
    [k \in {"unable_to_work", "unemployed", "gig_work", "seasonal", "part_time",
            "full_time_below_standard", "self_employed", "student", "retired",
            "full_time", "full_time_above_standard"} |->
        CASE k \in {"unable_to_work", "unemployed"} -> 1
          [] k \in {"gig_work", "seasonal"} -> 2
          [] k \in {"part_time", "full_time_below_standard", "self_employed",
                    "student"} -> 3
          [] k \in {"retired", "full_time"} -> 4
          [] k = "full_time_above_standard" -> 5]

\* the adjustments times Scale
FICO_RANGES ==
    [k \in {"below_580", "580-669", "670-739", "740-799", "800+", "unknown"} |->
        CASE k = "below_580" -> -100
          [] k = "580-669" -> -50
          [] k = "670-739" -> 0
          [] k = "740-799" -> 50
          [] k = "800+" -> 100
          [] k = "unknown" -> 0]

\* table.get(key, default) for a table keyed by one-word strings
\* a lookup that gives the lowest score to a key the table does not hold
TableGet_lowest(table, key, default) ==
    IF key.t = "str" /\ Len(key.v) = 1 /\ key.v[1] \in DOMAIN table
    THEN table[key.v[1]]
    ELSE 1

TableGet(table, key, default) ==
    IF key.t = "str" /\ Len(key.v) = 1 /\ key.v[1] \in DOMAIN table
    THEN table[key.v[1]]
    ELSE default

\* round(p / q, 2) times Scale, q > 0: the nearest hundredth, a tie to the even one
Round2(p, q) ==
    LET n == p * Scale
        fl == n \div q
        r == n - fl * q
    IN  IF 2 * r < q THEN fl
        ELSE IF 2 * r > q THEN fl + 1
        ELSE IF fl % 2 = 0 THEN fl ELSE fl + 1

\* _clamp without its lower bound: min(high, round(value, 2))
_clamp_no_floor(value) ==
    LET r == Round2(value.v, Scale)
        high == 5 * Scale
    IN  IF ~(r < high) THEN [t |-> "int", v |-> high]
        ELSE [t |-> value.t, v |-> r]

\* _clamp(value, low=1, high=5) of a number value.  round keeps the type of
\* its argument; max and min keep their first argument unless the second is
\* strictly beyond it, so a result on a bound is the int bound itself.
_clamp(value) ==
    LET r == Round2(value.v, Scale)
        low == 1 * Scale
        high == 5 * Scale
    IN  IF ~(r < high) THEN [t |-> "int", v |-> high]
        ELSE IF ~(r > low) THEN [t |-> "int", v |-> low]
        ELSE [t |-> value.t, v |-> r]

\* the comparisons with the bound itself included: ratio >= c, ratio <= c
RatioGE(p, q, c) == p * Scale >= c * q
RatioLE(p, q, c) == p * Scale <= c * q

\* p / q > c / 100 and p / q < c / 100 for q > 0 (c a threshold in hundredths)
RatioGT(p, q, c) == p * Scale > c * q
RatioLT(p, q, c) == p * Scale < c * q

priority_challenges == {S("eviction_notice"), S("shutoff_notice"), S("homeless")}

_score_housing(data) ==
    LET situation == Get(data, "housing_situation", S("renting_stable"))
        monthly_income == NumVal(Get(data, "monthly_income", PyInt(0)))
        monthly_housing_cost == NumVal(Get(data, "monthly_housing_cost", PyInt(0)))
        challenges == Get(data, "housing_challenges", List(<<>>)).v
        base == TableGet(HOUSING_SITUATION_BASE, situation, 3)
        \* ratio as a fraction <<numerator, denominator>>
        ratio == IF monthly_income > 0 THEN <<monthly_housing_cost, monthly_income>>
                 ELSE <<1, 1>>
        ratio_adj ==
            IF RatioGT(ratio[1], ratio[2], 50) THEN -2
            ELSE IF RatioGT(ratio[1], ratio[2], 40) THEN -1
            ELSE IF RatioGT(ratio[1], ratio[2], 30) THEN 0
            ELSE IF RatioGT(ratio[1], ratio[2], 20) THEN 0
            ELSE 1
        count == IF Len(challenges) < 4 THEN Len(challenges) ELSE 4
        challenge_adj == -50 * count
        priority == ({challenges[i] : i \in 1..Len(challenges)} \cap priority_challenges # {})
                    \/ situation = S("homeless")
        \* challenge_adj is a float (-0.5 * ...), and so is the sum
        raw == PyFloat(base * Scale + ratio_adj * Scale + challenge_adj)
    IN  [score |-> _clamp(raw), base |-> base, ratio_adjustment |-> ratio_adj,
         challenge_adjustment |-> challenge_adj,
         challenge_count |-> Len(challenges), priority_trigger |-> priority]

area_standard == 4200

_score_employment(data) ==
    LET status == Get(data, "employment_status", S("full_time"))
        has_benefits == Get(data, "has_benefits", B(FALSE))
        monthly_income == NumVal(Get(data, "monthly_income", PyInt(0)))
        base == TableGet(EMPLOYMENT_STATUS_BASE, status, 3)
        benefits_adj == IF Truthy(has_benefits) THEN 50 ELSE -50
        income_adj ==
            IF monthly_income > 0
            THEN IF RatioLT(monthly_income, area_standard * Scale, 50) THEN -100
                 ELSE IF RatioLT(monthly_income, area_standard * Scale, 80) THEN 0
                 ELSE 50
            ELSE -100
        \* benefits_adj is a float (0.5 or -0.5), and so is the sum
        raw == PyFloat(base * Scale + benefits_adj + income_adj)
    IN  [score |-> _clamp(raw), base |-> base, benefits_adjustment |-> benefits_adj,
         income_adjustment |-> income_adj]

\* _score_financial with the savings brackets closed at their upper ends:
\* savings_rate <= 0.03, <= 0.10, <= 0.20
_score_financial_closed_brackets(data) ==
    LET monthly_income == NumVal(Get(data, "monthly_income", PyInt(0)))
        monthly_expenses == NumVal(Get(data, "monthly_expenses", PyInt(0)))
        savings_rate == NumVal(Get(data, "savings_rate", PyInt(0)))
        fico_range == Get(data, "fico_range", S("unknown"))
        expense_ratio == IF monthly_income > 0 THEN <<monthly_expenses, monthly_income>>
                         ELSE <<3, 2>>
        base ==
            IF RatioGT(expense_ratio[1], expense_ratio[2], 100) THEN 1
            ELSE IF RatioGT(expense_ratio[1], expense_ratio[2], 90) THEN 2
            ELSE IF RatioGT(expense_ratio[1], expense_ratio[2], 70) THEN 3
            ELSE IF RatioGT(expense_ratio[1], expense_ratio[2], 50) THEN 4
            ELSE 5
        savings_adj ==
            IF savings_rate <= 0 THEN -100
            ELSE IF savings_rate <= 3 THEN -50
            ELSE IF savings_rate <= 10 THEN 0
            ELSE IF savings_rate <= 20 THEN 50
            ELSE 100
        fico_adj == TableGet(FICO_RANGES, fico_range, 0)
        raw == [t |-> IF savings_adj % Scale # 0 \/ fico_adj % Scale # 0
                      THEN "float" ELSE "int",
                v |-> base * Scale + savings_adj + fico_adj]
    IN  [score |-> _clamp(raw), base |-> base, savings_adjustment |-> savings_adj,
         fico_adjustment |-> fico_adj]

_score_financial(data) ==
    LET monthly_income == NumVal(Get(data, "monthly_income", PyInt(0)))
        monthly_expenses == NumVal(Get(data, "monthly_expenses", PyInt(0)))
        savings_rate == NumVal(Get(data, "savings_rate", PyInt(0)))
        fico_range == Get(data, "fico_range", S("unknown"))
        expense_ratio == IF monthly_income > 0 THEN <<monthly_expenses, monthly_income>>
                         ELSE <<3, 2>>
        base ==
            IF RatioGT(expense_ratio[1], expense_ratio[2], 100) THEN 1
            ELSE IF RatioGT(expense_ratio[1], expense_ratio[2], 90) THEN 2
            ELSE IF RatioGT(expense_ratio[1], expense_ratio[2], 70) THEN 3
            ELSE IF RatioGT(expense_ratio[1], expense_ratio[2], 50) THEN 4
            ELSE 5
        savings_adj ==
            IF savings_rate <= 0 THEN -100
            ELSE IF savings_rate < 3 THEN -50
            ELSE IF savings_rate < 10 THEN 0
            ELSE IF savings_rate < 20 THEN 50
            ELSE 100
        fico_adj == TableGet(FICO_RANGES, fico_range, 0)
        \* an int unless one of the adjustments is the float 0.5 or -0.5
        raw == [t |-> IF savings_adj % Scale # 0 \/ fico_adj % Scale # 0
                      THEN "float" ELSE "int",
                v |-> base * Scale + savings_adj + fico_adj]
    IN  [score |-> _clamp(raw), base |-> base, savings_adjustment |-> savings_adj,
         fico_adjustment |-> fico_adj]

\* the recommendation with 2.5 itself taken as direct_support
recommend_path_inclusive(priority, composite) ==
    IF priority \/ composite <= 250 THEN "direct_support"
    ELSE IF composite <= 350 THEN "mixed"
    ELSE "referral"

\* the recommendation with 3.5 itself taken as referral
recommend_path_exclusive(priority, composite) ==
    IF priority \/ composite < 250 THEN "direct_support"
    ELSE IF composite < 350 THEN "mixed"
    ELSE "referral"

\* the path recommendation of _compute_composite (composite in hundredths)
recommend_path(priority, composite) ==
    IF priority \/ composite < 250 THEN "direct_support"
    ELSE IF composite <= 350 THEN "mixed"
    ELSE "referral"

\* the flag without the housing scorer's priority trigger
compute_priority_scores_only(housing, employment, financial) ==
    housing.score.v = 1 * Scale \/ employment.score.v = 1 * Scale
        \/ financial.score.v = 1 * Scale

\* any domain score == 1, or the housing scorer's priority trigger
compute_priority(housing, employment, financial) ==
    (housing.score.v = 1 * Scale \/ employment.score.v = 1 * Scale
        \/ financial.score.v = 1 * Scale)
    \/ housing.priority_trigger

_compute_composite(housing, employment, financial) ==
    LET h == housing.score.v
        e == employment.score.v
        f == financial.score.v
        \* round((h + e + f) / 3, 2): the sum is in hundredths
        composite == Round2(h + e + f, 3 * Scale)
        priority == compute_priority(housing, employment, financial)
    IN  [composite |-> composite, priority |-> priority,
         path |-> recommend_path(priority, composite)]

Return(value) == [kind |-> "return", value |-> value, exc |-> "", msg |-> <<>>]
Raise(type, msg) == [kind |-> "raise", value |-> Null, exc |-> type, msg |-> msg]

\* the comparisons and len() of the scorers raise TypeError on these bodies
ScoringTypeError(data) ==
    \/ \E k \in {"monthly_income", "monthly_housing_cost", "monthly_expenses",
                 "savings_rate"} : k \in DOMAIN data /\ ~IsNumber(data[k])
    \/ "housing_challenges" \in DOMAIN data /\ data["housing_challenges"].t # "list"

handle_scoring(b) ==
    IF ~Truthy(b) THEN Raise("ValueError", <<"Request body is required">>)
    ELSE IF b.t # "dict" THEN Raise("AttributeError", <<"no attribute 'get'">>)
    ELSE IF ScoringTypeError(b.v) THEN Raise("TypeError", <<"not supported">>)
    ELSE
    LET housing == _score_housing(b.v)
        employment == _score_employment(b.v)
        financial == _score_financial(b.v)
        c == _compute_composite(housing, employment, financial)
        composite == [t |-> "float", v |-> c.composite]
    IN  Return(Dict(
         [k \in {"status", "record_id", "housing_score", "employment_score",
                 "financial_resilience_score", "composite_score", "priority_flag",
                 "recommended_path", "message"} |->
            CASE k = "status" -> S("success")
              [] k = "record_id" -> S("<uuid4>")
              [] k = "housing_score" -> housing.score
              [] k = "employment_score" -> employment.score
              [] k = "financial_resilience_score" -> financial.score
              [] k = "composite_score" -> composite
              [] k = "priority_flag" -> B(c.priority)
              [] k = "recommended_path" -> S(c.path)
              [] k = "message" ->
                   Str(<<"Scoring complete. Path: ", c.path, ". Housing=">>
                       \o PyStr(housing.score) \o <<", Employment=">>
                       \o PyStr(employment.score) \o <<", Financial=">>
                       \o PyStr(financial.score) \o <<", Composite=">>
                       \o PyStr(composite) \o <<".">>)]))

-----------------------------------------------------------------------------
(* json: a JSON text is its sequence of tokens, "{", a member (key: value), *)
(* "," and "}"; the lexical form of a scalar is not modelled               *)

LBrace == [tok |-> "{", k |-> "", val |-> Null]
RBrace == [tok |-> "}", k |-> "", val |-> Null]
Comma == [tok |-> ",", k |-> "", val |-> Null]
Member(key, value) == [tok |-> "member", k |-> key, val |-> value]

RECURSIVE Members(_, _)
Members(d, keys) ==
    IF keys = {} THEN <<>>
    ELSE LET key == CHOOSE x \in keys : TRUE
             rest == keys \ {key}
         IN  <<Member(key, d[key])>>
             \o (IF rest = {} THEN <<>> ELSE <<Comma>>)
             \o Members(d, rest)

\* json.dumps(d, default=str) of a dict
json_dumps(d) ==
    [t |-> "json", v |-> <<LBrace>> \o Members(d, DOMAIN d) \o <<RBrace>>]

\* the tokens are those of one JSON object
WellFormedObject(toks) ==
    /\ Len(toks) >= 2
    /\ toks[1].tok = "{"
    /\ toks[Len(toks)].tok = "}"
    /\ LET n == Len(toks) - 2
       IN  /\ n = 0 \/ n % 2 = 1
           /\ \A i \in 1..n :
                toks[i + 1].tok = (IF i % 2 = 1 THEN "member" ELSE ",")

\* json.loads(text): the dict of a well-formed object (the last of two members
\* with one key wins), JSONDecodeError otherwise
json_loads(text) ==
    IF text.t = "json" /\ WellFormedObject(text.v)
    THEN LET toks == text.v
             at == {i \in 1..Len(toks) : toks[i].tok = "member"}
             keys == {toks[i].k : i \in at}
             last(key) == CHOOSE i \in at :
                            /\ toks[i].k = key
                            /\ \A j \in at : toks[j].k = key => j <= i
         IN  Return(Dict([key \in keys |-> toks[last(key)].val]))
    ELSE Raise("JSONDecodeError", <<"Expecting value">>)

-----------------------------------------------------------------------------
(* index.py: route tables, request parsing *)

\* the path table with the two operations exchanged
PATH_ROUTES_crossed ==
    [k \in {"/scoring/calculate", "/resources/search"} |->
        IF k = "/scoring/calculate" THEN "handle_resource_lookup" ELSE "handle_scoring"]

PATH_ROUTES ==
    [k \in {"/scoring/calculate", "/resources/search"} |->
        IF k = "/scoring/calculate" THEN "handle_scoring" ELSE "handle_resource_lookup"]

\* the tool table with the two operations exchanged
TOOL_ROUTES_crossed ==
    [k \in {"scoringCalculate", "resourceLookup"} |->
        IF k = "scoringCalculate" THEN "handle_resource_lookup" ELSE "handle_scoring"]

TOOL_ROUTES ==
    [k \in {"scoringCalculate", "resourceLookup"} |->
        IF k = "scoringCalculate" THEN "handle_scoring" ELSE "handle_resource_lookup"]

ACTION_ROUTES ==
    [k \in {"scoring", "resource_lookup"} |->
        IF k = "scoring" THEN "handle_scoring" ELSE "handle_resource_lookup"]

Separator == "___"

\* a split at the last separator: tool_name.rsplit('___', 1)[1]
strip_target_prefix_last(tool_name) ==
    IF \E i \in 1..Len(tool_name.v) : tool_name.v[i] = Separator
    THEN LET last == CHOOSE i \in 1..Len(tool_name.v) :
                        /\ tool_name.v[i] = Separator
                        /\ \A j \in (i + 1)..Len(tool_name.v) : tool_name.v[j] # Separator
         IN  Str(SubSeq(tool_name.v, last + 1, Len(tool_name.v)))
    ELSE tool_name

\* tool_name.split('___', 1)[1] when '___' in tool_name, else tool_name
strip_target_prefix(tool_name) ==
    IF \E i \in 1..Len(tool_name.v) : tool_name.v[i] = Separator
    THEN LET first == CHOOSE i \in 1..Len(tool_name.v) :
                        /\ tool_name.v[i] = Separator
                        /\ \A j \in 1..(i - 1) : tool_name.v[j] # Separator
         IN  Str(SubSeq(tool_name.v, first + 1, Len(tool_name.v)))
    ELSE tool_name

Routed(type, key, b) == Return([route_type |-> type, route_key |-> key, body |-> b])

\* the shapes tested in another order: toolName before httpMethod and resource
_extract_route_and_body_tool_first(ev) ==
    IF "toolName" \in DOMAIN ev
    THEN LET tool_name == strip_target_prefix(ev["toolName"])
             args == Get(ev, "arguments", Dict(EmptyMap))
         IN  IF IsStr(args)
             THEN LET parsed == json_loads(args)
                  IN  IF parsed.kind = "raise" THEN parsed
                      ELSE Routed("tool", tool_name, parsed.value)
             ELSE Routed("tool", tool_name, args)
    ELSE IF "httpMethod" \in DOMAIN ev \/ "resource" \in DOMAIN ev
    THEN LET path == IF Truthy(Get(ev, "resource", Null)) THEN ev["resource"]
                     ELSE Get(ev, "path", EmptyStr)
             raw == Get(ev, "body", Null)
         IN  IF ~Truthy(raw) THEN Routed("path", path, Dict(EmptyMap))
             ELSE IF IsStr(raw)
             THEN LET parsed == json_loads(raw)
                  IN  IF parsed.kind = "raise" THEN parsed
                      ELSE Routed("path", path, parsed.value)
             ELSE Routed("path", path, raw)
    ELSE IF "action" \in DOMAIN ev
    THEN Routed("action", ev["action"], Get(ev, "payload", Dict(ev)))
    ELSE Routed("unknown", Null, Dict(ev))

\* a direct envelope without payload gets an empty body, as a tool envelope
\* without arguments does: event.get('payload', {})
_extract_route_and_body_empty_payload(ev) ==
    IF "httpMethod" \in DOMAIN ev \/ "resource" \in DOMAIN ev
    THEN LET path == IF Truthy(Get(ev, "resource", Null)) THEN ev["resource"]
                     ELSE Get(ev, "path", EmptyStr)
             raw == Get(ev, "body", Null)
         IN  IF ~Truthy(raw) THEN Routed("path", path, Dict(EmptyMap))
             ELSE IF IsStr(raw)
             THEN LET parsed == json_loads(raw)
                  IN  IF parsed.kind = "raise" THEN parsed
                      ELSE Routed("path", path, parsed.value)
             ELSE Routed("path", path, raw)
    ELSE IF "toolName" \in DOMAIN ev
    THEN LET tool_name == strip_target_prefix(ev["toolName"])
             args == Get(ev, "arguments", Dict(EmptyMap))
         IN  IF IsStr(args)
             THEN LET parsed == json_loads(args)
                  IN  IF parsed.kind = "raise" THEN parsed
                      ELSE Routed("tool", tool_name, parsed.value)
             ELSE Routed("tool", tool_name, args)
    ELSE IF "action" \in DOMAIN ev
    THEN Routed("action", ev["action"], Get(ev, "payload", Dict(EmptyMap)))
    ELSE Routed("unknown", Null, Dict(ev))

_extract_route_and_body(ev) ==
    IF "httpMethod" \in DOMAIN ev \/ "resource" \in DOMAIN ev
    THEN LET path == IF Truthy(Get(ev, "resource", Null)) THEN ev["resource"]
                     ELSE Get(ev, "path", EmptyStr)
             raw == Get(ev, "body", Null)
         IN  IF ~Truthy(raw) THEN Routed("path", path, Dict(EmptyMap))
             ELSE IF IsStr(raw)
             THEN LET parsed == json_loads(raw)
                  IN  IF parsed.kind = "raise" THEN parsed
                      ELSE Routed("path", path, parsed.value)
             ELSE Routed("path", path, raw)
    ELSE IF "toolName" \in DOMAIN ev
    THEN LET tool_name == strip_target_prefix(ev["toolName"])
             args == Get(ev, "arguments", Dict(EmptyMap))
         IN  IF IsStr(args)
             THEN LET parsed == json_loads(args)
                  IN  IF parsed.kind = "raise" THEN parsed
                      ELSE Routed("tool", tool_name, parsed.value)
             ELSE Routed("tool", tool_name, args)
    ELSE IF "action" \in DOMAIN ev
    THEN Routed("action", ev["action"], Get(ev, "payload", Dict(ev)))
    ELSE Routed("unknown", Null, Dict(ev))

\* a resolver that falls back to the scoring operation for a key it does not hold
_resolve_handler_default(type, key) ==
    IF type = "path" THEN TableGet(PATH_ROUTES, key, "handle_scoring")
    ELSE IF type = "tool" THEN TableGet(TOOL_ROUTES, key, "handle_scoring")
    ELSE IF type = "action" THEN TableGet(ACTION_ROUTES, key, "handle_scoring")
    ELSE ""

\* the name of the handler function, "" for None
_resolve_handler(type, key) ==
    IF type = "path" THEN TableGet(PATH_ROUTES, key, "")
    ELSE IF type = "tool" THEN TableGet(TOOL_ROUTES, key, "")
    ELSE IF type = "action" THEN TableGet(ACTION_ROUTES, key, "")
    ELSE ""

ResponseHeaders ==
    [k \in {"Content-Type", "Cache-Control", "Strict-Transport-Security",
            "X-Content-Type-Options"} |->
        CASE k = "Content-Type" -> "application/json"
          [] k = "Cache-Control" -> "no-store"
          [] k = "Strict-Transport-Security" -> "max-age=31536000; includeSubDomains"
          [] k = "X-Content-Type-Options" -> "nosniff"]

\* a response builder that attaches the security headers to a 200 only
_response_plain(status_code, b) ==
    [statusCode |-> status_code,
     headers |-> IF status_code = 200 THEN ResponseHeaders
                 ELSE [k \in {"Content-Type"} |-> "application/json"],
     body |-> json_dumps(b)]

_response(status_code, b) ==
    [statusCode |-> status_code, headers |-> ResponseHeaders, body |-> json_dumps(b)]

NoResponse == [statusCode |-> 0, headers |-> EmptyMap, body |-> Null]

ErrorBody(pieces) == [k \in {"error"} |-> Str(pieces)]

-----------------------------------------------------------------------------
(* sophia_resource_lookup.py *)

MAX_RESULTS == 10

\* int(x) raises: TypeError for None, a list or a dict, ValueError for a str
\* that is not a numeral
IntRaises(x) ==
    CASE x.t \in {"null", "list", "dict"} -> "TypeError"
      [] IsStr(x) ->
            IF x.t = "str" /\ Len(strip(x.v)) > 0
               /\ \A i \in 1..Len(strip(x.v)) :
                    \E d \in 1..10 : DigitChars[d] = strip(x.v)[i]
            THEN "" ELSE "ValueError"
      [] OTHER -> ""

\* http: what the request to the directory does ("found", "empty", "error");
\* every failure of the request is caught inside the operation
handle_resource_lookup(b, http) ==
    IF ~Truthy(b) THEN Raise("ValueError", <<"Request body is required">>)
    ELSE IF b.t # "dict" THEN Raise("AttributeError", <<"no attribute 'get'">>)
    ELSE IF ~Truthy(Get(b.v, "keyword", Null))
    THEN Raise("ValueError", <<"Missing required fields: ", "keyword">>)
    ELSE IF IntRaises(Get(b.v, "max_results", PyInt(MAX_RESULTS))) # ""
    THEN Raise(IntRaises(Get(b.v, "max_results", PyInt(MAX_RESULTS))), <<"int()">>)
    ELSE
    LET found == http = "found"
        keys == {"found", "results", "total_count", "message", "source"}
                \cup (IF found THEN {"showing"} ELSE {})
    IN  Return(Dict(
         [k \in keys |->
            CASE k = "found" -> B(found)
              [] k = "results" ->
                   IF found
                   THEN List(<<Dict([f \in {"service_name"} |-> S("Food Bank")])>>)
                   ELSE List(<<>>)
              [] k = "total_count" -> IF found THEN PyInt(1) ELSE PyInt(0)
              [] k = "showing" -> PyInt(1)
              [] k = "message" ->
                   IF found THEN S("Found resources")
                   ELSE IF http = "empty" THEN S("No resources found")
                   ELSE S("The community resource directory is temporarily unavailable.")
              [] k = "source" ->
                   IF http = "error" THEN S("sophia_211_error") ELSE S("sophia_211")]))

-----------------------------------------------------------------------------
(* index.py: contact attribute persistence *)

HexDigits == {"0", "1", "2", "3", "4", "5", "6", "7", "8", "9",
              "a", "b", "c", "d", "e", "f", "A", "B", "C", "D", "E", "F"}

\* UUID_RE.match(s): 8-4-4-4-12 hex digits, any case; "$" also matches just
\* before one trailing newline
UUID_RE_match(s) ==
    LET core == IF Len(s) = 37 /\ s[37] = "\n" THEN SubSeq(s, 1, 36) ELSE s
    IN  /\ Len(core) = 36
        /\ \A i \in 1..36 :
             IF i \in {9, 14, 19, 24} THEN core[i] = "-" ELSE core[i] \in HexDigits

\* request body key -> contact attribute name, in the order of declaration
ATTR_MAP ==
    << <<"firstName", "firstName">>, <<"lastName", "lastName">>,
       <<"zipCode", "zipCode">>, <<"zip_code", "zipCode">>,
       <<"county", "county">>, <<"contactMethod", "contactMethod">>,
       <<"phoneNumber", "phoneNumber">>, <<"emailAddress", "emailAddress">>,
       <<"preferredDays", "preferredDays">>, <<"preferredTimes", "preferredTimes">>,
       <<"needCategory", "needCategory">>, <<"keyword", "needCategory">>,
       <<"needSubcategory", "needSubcategory">>, <<"path", "path">>,
       <<"age", "age">>, <<"hasChildrenUnder18", "hasChildrenUnder18">>,
       <<"employmentStatus", "employmentStatus">>,
       <<"employment_status", "employmentStatus">>,
       <<"employer", "employer">>,
       <<"militaryAffiliation", "militaryAffiliation">>,
       <<"publicAssistance", "publicAssistance">>,
       <<"housing_situation", "housingSituation">>,
       <<"housingSituation", "housingSituation">>,
       <<"monthly_income", "monthlyIncome">>, <<"monthlyIncome", "monthlyIncome">>,
       <<"monthly_housing_cost", "monthlyHousingCost">>,
       <<"monthlyHousingCost", "monthlyHousingCost">>,
       <<"monthly_expenses", "monthlyExpenses">>,
       <<"monthlyExpenses", "monthlyExpenses">>,
       <<"savings_rate", "savingsRate">>, <<"savingsRate", "savingsRate">>,
       <<"fico_range", "ficoRange">>, <<"ficoRange", "ficoRange">>,
       <<"has_benefits", "hasBenefits">>, <<"hasBenefits", "hasBenefits">>,
       <<"partnerEmployee", "partnerEmployee">>,
       <<"partnerEmployer", "partnerEmployer">>,
       <<"escalationRoute", "escalationRoute">> >>

score_fields ==
    << <<"housing_score", "housingScore">>,
       <<"employment_score", "employmentScore">>,
       <<"financial_resilience_score", "financialResilienceScore">>,
       <<"composite_score", "compositeScore">>,
       <<"priority_flag", "priorityFlag">>,
       <<"recommended_path", "recommendedPath">> >>

\* attributes[attr_name] = value
SetItem(attributes, attr_name, value) ==
    [k \in DOMAIN attributes \cup {attr_name} |->
        IF k = attr_name THEN value ELSE attributes[k]]

\* a filter that keeps blank values: present and not None
IncludeRequestValue_any(value) == value.t # "null"

\* the request value body_key contributes: present, not None, non-blank
IncludeRequestValue(value) == value.t # "null" /\ Len(strip(PyStr(value))) > 0

\* the loop with the first alias kept: attributes.setdefault(attr_name, ...)
RECURSIVE collect_request_first_wins(_, _, _)
collect_request_first_wins(d, i, attributes) ==
    IF i > Len(ATTR_MAP) THEN attributes
    ELSE LET value == Get(d, ATTR_MAP[i][1], Null)
         IN  collect_request_first_wins(d, i + 1,
                 IF IncludeRequestValue(value) /\ ATTR_MAP[i][2] \notin DOMAIN attributes
                 THEN SetItem(attributes, ATTR_MAP[i][2], Str(strip(PyStr(value))))
                 ELSE attributes)

\* the loop over ATTR_MAP.items() from entry i on
RECURSIVE collect_request(_, _, _)
collect_request(d, i, attributes) ==
    IF i > Len(ATTR_MAP) THEN attributes
    ELSE LET value == Get(d, ATTR_MAP[i][1], Null)
         IN  collect_request(d, i + 1,
                 IF IncludeRequestValue(value)
                 THEN SetItem(attributes, ATTR_MAP[i][2], Str(strip(PyStr(value))))
                 ELSE attributes)

\* the loop over score_fields.items() from entry i on
RECURSIVE collect_scores(_, _, _)
collect_scores(res, i, attributes) ==
    IF i > Len(score_fields) THEN attributes
    ELSE LET value == Get(res, score_fields[i][1], Null)
         IN  collect_scores(res, i + 1,
                 IF value.t # "null"
                 THEN SetItem(attributes, score_fields[i][2], Str(strip(PyStr(value))))
                 ELSE attributes)

build_attributes(d, res) == collect_scores(res, 1, collect_request(d, 1, EmptyMap))

\* x.strip() if x else '': AttributeError when a truthy x is no str
StripRaises(x) == Truthy(x) /\ x.t # "str"
StripOrEmpty(x) == IF Truthy(x) THEN strip(x.v) ELSE <<>>

\* a skipped id: empty after trimming, or not of the UUID shape
InvalidId(id) == Len(id) = 0 \/ ~UUID_RE_match(id)

Saved(calls) == [kind |-> "return", exc |-> "", calls |-> calls]
SaveRaised(type, calls) == [kind |-> "raise", exc |-> type, calls |-> calls]

\* _save_contact_attributes without "if not attributes: return"
_save_contact_attributes_unguarded(d, res, config, ext) ==
    LET in_body == Get(d, "instance_id", Null)
        raw_instance == IF Truthy(in_body) THEN in_body ELSE config
        in_contact == Get(d, "contact_id", Null)
        raw_contact == IF Truthy(in_contact) THEN in_contact ELSE EmptyStr
    IN  IF StripRaises(raw_instance) \/ StripRaises(raw_contact)
        THEN SaveRaised("AttributeError", <<>>)
        ELSE
        LET instance_id == StripOrEmpty(raw_instance)
            contact_id == StripOrEmpty(raw_contact)
            call == [InstanceId |-> instance_id, InitialContactId |-> contact_id,
                     Attributes |-> build_attributes(d, res)]
        IN  IF InvalidId(instance_id) THEN Saved(<<>>)
            ELSE IF InvalidId(contact_id) THEN Saved(<<>>)
            ELSE IF ext = "client" THEN SaveRaised("UnknownServiceError", <<>>)
            ELSE IF ext = "BotoCoreError"
            THEN SaveRaised("EndpointConnectionError", <<call>>)
            ELSE Saved(<<call>>)

\* _save_contact_attributes with the configured instance id taken first:
\* CONNECT_INSTANCE_ID or body.get('instance_id')
_save_contact_attributes_config_first(d, res, config, ext) ==
    LET in_body == Get(d, "instance_id", Null)
        raw_instance == IF Truthy(config) THEN config ELSE in_body
        in_contact == Get(d, "contact_id", Null)
        raw_contact == IF Truthy(in_contact) THEN in_contact ELSE EmptyStr
    IN  IF StripRaises(raw_instance) \/ StripRaises(raw_contact)
        THEN SaveRaised("AttributeError", <<>>)
        ELSE
        LET instance_id == StripOrEmpty(raw_instance)
            contact_id == StripOrEmpty(raw_contact)
            attributes == build_attributes(d, res)
            call == [InstanceId |-> instance_id, InitialContactId |-> contact_id,
                     Attributes |-> attributes]
        IN  IF InvalidId(instance_id) THEN Saved(<<>>)
            ELSE IF InvalidId(contact_id) THEN Saved(<<>>)
            ELSE IF DOMAIN attributes = {} THEN Saved(<<>>)
            ELSE IF ext = "client" THEN SaveRaised("UnknownServiceError", <<>>)
            ELSE IF ext = "BotoCoreError"
            THEN SaveRaised("EndpointConnectionError", <<call>>)
            ELSE Saved(<<call>>)

\* _save_contact_attributes(body, result, request_id) for a dict body d.
\* config: CONNECT_INSTANCE_ID.  ext: what boto3 does, "ok", "ClientError"
\* (the one exception the function catches), "client" (boto3.client raises)
\* or "BotoCoreError" (update_contact_attributes raises another exception).
\* calls: the update_contact_attributes calls made.
_save_contact_attributes(d, res, config, ext) ==
    LET in_body == Get(d, "instance_id", Null)
        raw_instance == IF Truthy(in_body) THEN in_body ELSE config
        in_contact == Get(d, "contact_id", Null)
        raw_contact == IF Truthy(in_contact) THEN in_contact ELSE EmptyStr
    IN  IF StripRaises(raw_instance) \/ StripRaises(raw_contact)
        THEN SaveRaised("AttributeError", <<>>)
        ELSE
        LET instance_id == StripOrEmpty(raw_instance)
            contact_id == StripOrEmpty(raw_contact)
            attributes == build_attributes(d, res)
            call == [InstanceId |-> instance_id, InitialContactId |-> contact_id,
                     Attributes |-> attributes]
        IN  IF InvalidId(instance_id) THEN Saved(<<>>)
            ELSE IF InvalidId(contact_id) THEN Saved(<<>>)
            ELSE IF DOMAIN attributes = {} THEN Saved(<<>>)
            ELSE IF ext = "client" THEN SaveRaised("UnknownServiceError", <<>>)
            ELSE IF ext = "BotoCoreError"
            THEN SaveRaised("EndpointConnectionError", <<call>>)
            ELSE Saved(<<call>>)

-----------------------------------------------------------------------------
(* the requests the model sends *)

MaxPad == 1
MaxChallenges == 5

Rep(c, n) == [i \in 1..n |-> c]

\* the 36 characters of a UUID: hex digit a in the outer groups, b in the inner
Uuid(a, b) ==
    Rep(a, 8) \o <<"-">> \o Rep(b, 4) \o <<"-">> \o Rep(b, 4) \o <<"-">>
    \o Rep(b, 4) \o <<"-">> \o Rep(a, 12)

ValidInstance == Str(Uuid("a", "1"))
OtherInstance == Str(Uuid("b", "2"))
ValidContact == Str(Uuid("C", "9"))
PaddedContact == Str(Rep(" ", MaxPad) \o Uuid("c", "9") \o <<"\n">>)
NonHexId == Str(Uuid("g", "9"))
ShortId == Str(Tail(Uuid("a", "1")))
BlankId == Str(Rep(" ", MaxPad))
NumericId == PyInt(12345)

ScenarioA ==
    ("housing_situation" :> S("homeless")) @@ ("monthly_income" :> PyInt(800))
    @@ ("monthly_housing_cost" :> PyInt(0)) @@ ("employment_status" :> S("unemployed"))

ScenarioB ==
    ("housing_situation" :> S("renting_month_to_month"))
    @@ ("monthly_income" :> PyInt(2500)) @@ ("monthly_housing_cost" :> PyInt(900))
    @@ ("employment_status" :> S("part_time")) @@ ("monthly_expenses" :> PyInt(2000))
    @@ ("savings_rate" :> PyFloat(2)) @@ ("fico_range" :> S("580-669"))

ScenarioC ==
    ("housing_situation" :> S("owner_no_mortgage"))
    @@ ("monthly_income" :> PyInt(6000)) @@ ("monthly_housing_cost" :> PyInt(0))
    @@ ("employment_status" :> S("full_time_above_standard"))
    @@ ("has_benefits" :> B(TRUE)) @@ ("monthly_expenses" :> PyInt(2000))
    @@ ("savings_rate" :> PyFloat(15)) @@ ("fico_range" :> S("800+"))

\* monthly_income sent as a string
IllTyped == ("housing_situation" :> S("homeless")) @@ ("monthly_income" :> S("800"))

\* a lookup whose keyword is blank, with both ids valid
QuietLookup ==
    ("keyword" :> Str(Rep(" ", MaxPad))) @@ ("instance_id" :> ValidInstance)
    @@ ("contact_id" :> ValidContact)

InstanceOpts ==
    {EmptyMap, "instance_id" :> ValidInstance, "instance_id" :> ShortId,
     "instance_id" :> NumericId}

\* an instance_id that is the empty string, None, or a valid id with blanks
\* around it
OddInstanceOpts ==
    {"instance_id" :> EmptyStr, "instance_id" :> Null,
     "instance_id" :> Str(Rep(" ", MaxPad) \o Uuid("a", "1") \o Rep(" ", MaxPad))}

ContactOpts ==
    {EmptyMap, "contact_id" :> ValidContact, "contact_id" :> PaddedContact,
     "contact_id" :> NonHexId, "contact_id" :> BlankId, "contact_id" :> NumericId}

AttrOpts ==
    {EmptyMap,
     ("zipCode" :> S("29401")) @@ ("zip_code" :> S("29403")),
     ("firstName" :> Str(Rep(" ", MaxPad)))
        @@ ("lastName" :> Str(Rep(" ", MaxPad) \o <<"Doe">> \o Rep(" ", MaxPad)))
        @@ ("county" :> Null) @@ ("age" :> PyInt(0))
        @@ ("record_id" :> S("r-1")) @@ ("message" :> S("hello")),
     ("keyword" :> S("food")) @@ ("county" :> S("Charleston"))
        @@ ("max_results" :> PyInt(5))}

Bodies ==
    {s @@ i @@ c @@ a : s \in {EmptyMap, ScenarioA}, i \in InstanceOpts,
                        c \in ContactOpts, a \in AttrOpts}
    \cup {ScenarioB, ScenarioC, IllTyped, QuietLookup}
    \cup {ScenarioA @@ i @@ ("contact_id" :> ValidContact) : i \in OddInstanceOpts}

\* JSON text that json.loads rejects: the closing brace is missing
Malformed(d) == [t |-> "json", v |-> <<LBrace>> \o Members(d, DOMAIN d)]

\* the three keys of each operation, and keys no table holds
Ops ==
    {[path |-> "/scoring/calculate", tool |-> "scoringCalculate", action |-> "scoring"],
     [path |-> "/resources/search", tool |-> "resourceLookup", action |-> "resource_lookup"],
     [path |-> "/case/status", tool |-> "caseStatus", action |-> "case_status"]}

EventsOf(o, d) ==
    {("resource" :> S(o.path)) @@ ("httpMethod" :> S("POST")) @@ ("body" :> json_dumps(d)),
     ("httpMethod" :> S("POST")) @@ ("path" :> S(o.path)) @@ ("body" :> Dict(d)),
     ("toolName" :> S(o.tool)) @@ ("arguments" :> Dict(d)),
     ("toolName" :> Str(<<"target", Separator, o.tool>>)) @@ ("arguments" :> json_dumps(d)),
     ("action" :> S(o.action)) @@ ("payload" :> Dict(d)),
     ("action" :> S(o.action)) @@ d}

MalformedEvents(o) ==
    {("resource" :> S(o.path)) @@ ("httpMethod" :> S("POST")) @@ ("body" :> Malformed(ScenarioA)),
     ("toolName" :> S(o.tool)) @@ ("arguments" :> Malformed(ScenarioA)),
     ("resource" :> S(o.path)) @@ ("body" :> S("not json"))}

\* envelopes with a path but no httpMethod and no resource, with an empty
\* resource, and with the fields of two shapes
PathEvents(o) ==
    {("path" :> S(o.path)) @@ ("body" :> Dict(ScenarioA)),
     ("resource" :> EmptyStr) @@ ("path" :> S(o.path)) @@ ("body" :> Dict(ScenarioA)),
     ("httpMethod" :> S("POST")) @@ ("body" :> Dict(ScenarioA)),
     ("path" :> S(o.path)) @@ ("toolName" :> S(o.tool)) @@ ("arguments" :> Dict(ScenarioA)),
     ("resource" :> S(o.path)) @@ ("action" :> S("resource_lookup")) @@ ("body" :> Dict(ScenarioA))}

\* envelopes of none of the three shapes
UnknownEvents ==
    {ScenarioA, EmptyMap,
     "requestContext" :> Dict("requestId" :> S("r-1")),
     ("requestContext" :> S("r-1")) @@ ScenarioA,
     "requestContext" :> Null,
     ("operation" :> S("scoring")) @@ ("body" :> Dict(ScenarioA))}

\* tool envelopes whose name holds two separators, begins with the separator,
\* or comes without arguments
ToolEvents ==
    {("toolName" :> Str(<<"a", Separator, "b", Separator, "scoringCalculate">>))
        @@ ("arguments" :> Dict(ScenarioA)),
     ("toolName" :> Str(<<"a", Separator, "b", Separator, "scoringCalculate">>))
        @@ ("arguments" :> json_dumps(ScenarioB)),
     ("toolName" :> Str(<<Separator, "scoringCalculate">>))
        @@ ("arguments" :> json_dumps(ScenarioA)),
     "toolName" :> S("scoringCalculate")}

\* direct envelopes whose payload is None or empty, or that carry other
\* top-level fields beside the payload
DirectEvents ==
    {("action" :> S("scoring")) @@ ("payload" :> Null),
     ("action" :> S("scoring")) @@ ("payload" :> Dict(EmptyMap)),
     ("action" :> S("scoring")) @@ ("payload" :> Dict(ScenarioB)) @@ ScenarioA,
     "action" :> S("scoring")}

\* envelopes with the fields of two or three shapes, each shape naming another
\* operation or body
MixedEvents ==
    {("toolName" :> S("scoringCalculate")) @@ ("arguments" :> Dict(ScenarioA))
        @@ ("action" :> S("resource_lookup")) @@ ("payload" :> Dict(QuietLookup)),
     ("toolName" :> S("caseStatus")) @@ ("arguments" :> Dict(ScenarioA))
        @@ ("action" :> S("scoring")) @@ ("payload" :> Dict(ScenarioB)),
     ("httpMethod" :> S("POST")) @@ ("path" :> S("/scoring/calculate"))
        @@ ("body" :> json_dumps(ScenarioB))
        @@ ("toolName" :> S("resourceLookup")) @@ ("arguments" :> Dict(QuietLookup))
        @@ ("action" :> S("resource_lookup")) @@ ("payload" :> Dict(ScenarioA)),
     ("resource" :> S("/case/status")) @@ ("toolName" :> S("scoringCalculate"))
        @@ ("arguments" :> Dict(ScenarioA)),
     ("httpMethod" :> S("POST")) @@ ("resource" :> S("/scoring/calculate"))
        @@ ("action" :> S("scoring")) @@ ("payload" :> Dict(ScenarioA))}

\* the paths the end-to-end test posts to, each expected to answer 200
E2E_PATHS ==
    {"/resources/search", "/customer/profile", "/scoring/calculate",
     "/charitytracker/submit", "/followup/schedule", "/case/status"}

\* the request of test_10_case_status_not_found as the gateway delivers it, and
\* the same envelope for the other paths
E2EEvents ==
    {("resource" :> S(p)) @@ ("path" :> S(p)) @@ ("httpMethod" :> S("POST"))
        @@ ("body" :> json_dumps("case_reference" :> S("00000000"))) : p \in E2E_PATHS}

\* a scoring request that sends both aliases of four attributes, as a direct
\* payload and as gateway JSON text with zipCode before zip_code and after it
AliasEvents ==
    LET rest == ScenarioA @@ ("housingSituation" :> S("owner"))
                @@ ("monthlyIncome" :> PyInt(950))
                @@ ("needCategory" :> S("housing")) @@ ("keyword" :> S("food"))
                @@ ("instance_id" :> ValidInstance) @@ ("contact_id" :> ValidContact)
        early == Member("zipCode", S("29401"))
        late == Member("zip_code", S("29403"))
        text(first, second) ==
            [t |-> "json",
             v |-> <<LBrace, first, Comma, second, Comma>>
                   \o Members(rest, DOMAIN rest) \o <<RBrace>>]
        gateway(b) == ("resource" :> S("/scoring/calculate"))
                      @@ ("httpMethod" :> S("POST")) @@ ("body" :> b)
    IN  {gateway(text(early, late)), gateway(text(late, early)),
         ("action" :> S("scoring"))
            @@ ("payload" :> Dict(rest @@ ("zipCode" :> S("29401"))
                                       @@ ("zip_code" :> Str(Rep(" ", MaxPad)))))}

Events ==
    UNION {EventsOf(o, d) : o \in Ops, d \in Bodies}
    \cup UNION {MalformedEvents(o) : o \in Ops}
    \cup UNION {PathEvents(o) : o \in Ops}
    \cup UnknownEvents
    \cup ToolEvents \cup DirectEvents \cup MixedEvents \cup E2EEvents
    \cup AliasEvents
    \cup {("requestContext" :> Dict("requestId" :> S("r-1")))
            @@ ("resource" :> S("/scoring/calculate")) @@ ("httpMethod" :> S("POST"))
            @@ ("body" :> json_dumps(ScenarioB))}

Configs == {EmptyStr, OtherInstance, S("not-a-uuid")}

HttpOutcomes == {"found", "empty", "error"}
ExtOutcomes == {"ok", "ClientError", "client", "BotoCoreError"}

-----------------------------------------------------------------------------
(* handler(event, context), one step at a time *)

NoOutcome == [kind |-> "none", value |-> Null, exc |-> "", msg |-> <<>>]
NoExc == [type |-> "", msg |-> <<>>]

\* the six scoring outputs of a scoring result
ScoresOf(res) ==
    [k \in {"housing_score", "employment_score", "financial_resilience_score",
            "composite_score", "priority_flag", "recommended_path"} |-> res[k]]

\* the scoring calls the history keeps: those of the reference bodies
Remembered == {Dict(ScenarioA), Dict(ScenarioB)}

\* between: an invocation has finished since the remembered one
NoEarlier == [body |-> Null, scores |-> EmptyMap, between |-> FALSE]

\* event.get('requestContext', {}).get('requestId'): the exception the read
\* raises, "" when none (getattr(context, 'aws_request_id', 'unknown') raises
\* nothing)
request_id_raises(ev) ==
    IF Get(ev, "requestContext", Dict(EmptyMap)).t # "dict" THEN "AttributeError"
    ELSE ""

\* the locals of an invocation that has not begun
Fresh ==
    /\ event = EmptyMap
    /\ route_type = ""
    /\ route_key = Null
    /\ body = Null
    /\ handler_fn = ""
    /\ outcome = NoOutcome
    /\ result = Null
    /\ response = NoResponse
    /\ exc = NoExc
    /\ raised = ""
    /\ writes = <<>>
    /\ trace = <<>>

Init ==
    /\ CONNECT_INSTANCE_ID \in Configs
    /\ pc = "idle"
    /\ earlier = NoEarlier
    /\ Fresh

Invoke ==
    /\ pc = "idle"
    /\ \E ev \in Events : event' = ev
    /\ pc' = "start"
    /\ UNCHANGED <<CONNECT_INSTANCE_ID, earlier, route_type, route_key, body, handler_fn,
                   outcome, result, response, exc, raised, writes, trace>>

\* request_id = ...; route_type, route_key, body =
\* _extract_route_and_body(event), both outside the try block: an exception
\* here leaves handler
ExtractRouteAndBody ==
    /\ pc = "start"
    /\ LET r == _extract_route_and_body(event)
       IN  IF request_id_raises(event) # ""
           THEN /\ raised' = request_id_raises(event)
                /\ pc' = "done"
                /\ trace' = Append(trace, "request_id_raise")
                /\ UNCHANGED <<route_type, route_key, body>>
           ELSE IF r.kind = "raise"
           THEN /\ raised' = r.exc
                /\ pc' = "done"
                /\ trace' = Append(trace, "extract_raise")
                /\ UNCHANGED <<route_type, route_key, body>>
           ELSE /\ route_type' = r.value.route_type
                /\ route_key' = r.value.route_key
                /\ body' = r.value.body
                /\ pc' = "extracted"
                /\ trace' = Append(trace, "extract")
                /\ UNCHANGED raised
    /\ UNCHANGED <<CONNECT_INSTANCE_ID, earlier, event, handler_fn, outcome, result,
                   response, exc, writes>>

ResolveHandler ==
    /\ pc = "extracted"
    /\ handler_fn' = _resolve_handler(route_type, route_key)
    /\ pc' = "resolved"
    /\ trace' = Append(trace, "resolve")
    /\ UNCHANGED <<CONNECT_INSTANCE_ID, earlier, event, route_type, route_key, body,
                   outcome, result, response, exc, raised, writes>>

\* if not handler_fn: return _response(404, ...)
RespondNotFound ==
    /\ pc = "resolved"
    /\ handler_fn = ""
    /\ response' = _response(404, ErrorBody(<<"Unknown route: ">> \o PyStr(route_key)))
    /\ pc' = "done"
    /\ trace' = Append(trace, "respond")
    /\ UNCHANGED <<CONNECT_INSTANCE_ID, earlier, event, route_type, route_key, body,
                   handler_fn, outcome, result, exc, raised, writes>>

\* a handler whose scoring call reads the body of an earlier invocation
CallOperationStale ==
    /\ pc = "resolved"
    /\ handler_fn # ""
    /\ \E http \in HttpOutcomes :
         LET stale == IF earlier.body = Null THEN body ELSE earlier.body
             o == IF handler_fn = "handle_scoring" THEN handle_scoring(stale)
                  ELSE handle_resource_lookup(body, http)
         IN  /\ outcome' = o
             /\ IF o.kind = "return"
                THEN /\ result' = o.value
                     /\ pc' = "operated"
                     /\ trace' = trace \o <<"op_call", "op_return">>
                     /\ UNCHANGED exc
                ELSE /\ exc' = [type |-> o.exc, msg |-> o.msg]
                     /\ pc' = "except"
                     /\ trace' = trace \o <<"op_call", "op_raise">>
                     /\ UNCHANGED result
    /\ UNCHANGED <<CONNECT_INSTANCE_ID, earlier, event, route_type, route_key, body,
                   handler_fn, response, raised, writes>>

\* result = handler_fn(body)
CallOperation ==
    /\ pc = "resolved"
    /\ handler_fn # ""
    /\ \E http \in HttpOutcomes :
         LET o == IF handler_fn = "handle_scoring" THEN handle_scoring(body)
                  ELSE handle_resource_lookup(body, http)
         IN  /\ outcome' = o
             /\ IF o.kind = "return"
                THEN /\ result' = o.value
                     /\ pc' = "operated"
                     /\ trace' = trace \o <<"op_call", "op_return">>
                     /\ UNCHANGED exc
                ELSE /\ exc' = [type |-> o.exc, msg |-> o.msg]
                     /\ pc' = "except"
                     /\ trace' = trace \o <<"op_call", "op_raise">>
                     /\ UNCHANGED result
    /\ UNCHANGED <<CONNECT_INSTANCE_ID, earlier, event, route_type, route_key, body,
                   handler_fn, response, raised, writes>>

\* a handler that persists the request before it calls the operation
SaveContactAttributesEarly ==
    /\ pc = "resolved"
    /\ handler_fn # ""
    /\ body.t = "dict"
    /\ \A i \in 1..Len(trace) : trace[i] # "save"
    /\ \E ext \in ExtOutcomes :
         LET s == _save_contact_attributes(body.v, EmptyMap, CONNECT_INSTANCE_ID, ext)
         IN  /\ writes' = s.calls
             /\ trace' = trace \o <<"save">> \o [i \in 1..Len(s.calls) |-> "write"]
    /\ UNCHANGED <<CONNECT_INSTANCE_ID, earlier, pc, event, route_type, route_key, body,
                   handler_fn, outcome, result, response, exc, raised>>

\* _save_contact_attributes(body, result, request_id), inside the try block
SaveContactAttributes ==
    /\ pc = "operated"
    /\ \E ext \in ExtOutcomes :
         LET s == IF body.t # "dict" THEN SaveRaised("AttributeError", <<>>)
                  ELSE _save_contact_attributes(body.v, result.v, CONNECT_INSTANCE_ID, ext)
         IN  /\ writes' = s.calls
             /\ trace' = trace \o <<"save">> \o [i \in 1..Len(s.calls) |-> "write"]
             /\ IF s.kind = "return"
                THEN pc' = "saved" /\ UNCHANGED exc
                ELSE pc' = "except" /\ exc' = [type |-> s.exc, msg |-> <<s.exc>>]
    /\ UNCHANGED <<CONNECT_INSTANCE_ID, earlier, event, route_type, route_key, body,
                   handler_fn, outcome, result, response, raised>>

\* result.pop('sessionAttributes', None); _response(200, result); the session
\* attributes, when truthy, are put back into the decoded body
BuildResponse ==
    /\ pc = "saved"
    /\ LET session_attrs == Get(result.v, "sessionAttributes", Null)
           popped == [k \in DOMAIN result.v \ {"sessionAttributes"} |-> result.v[k]]
           first == _response(200, popped)
           response_body == json_loads(first.body).value.v
       IN  /\ result' = Dict(popped)
           /\ response' =
                IF Truthy(session_attrs)
                THEN [first EXCEPT !.body =
                        json_dumps(SetItem(response_body, "sessionAttributes", session_attrs))]
                ELSE first
    /\ pc' = "done"
    /\ trace' = Append(trace, "respond")
    /\ UNCHANGED <<CONNECT_INSTANCE_ID, earlier, event, route_type, route_key, body,
                   handler_fn, outcome, exc, raised, writes>>

\* an except clause that takes every exception for a validation failure
IsValueError_broad(type) == type # ""

\* JSONDecodeError is a subclass of ValueError
IsValueError(type) == type \in {"ValueError", "JSONDecodeError"}

\* except ValueError as e: 400 with str(e); except Exception: 500
HandleException ==
    /\ pc = "except"
    /\ response' = IF IsValueError(exc.type)
                   THEN _response(400, ErrorBody(exc.msg))
                   ELSE _response(500, ErrorBody(<<"Internal server error">>))
    /\ pc' = "done"
    /\ trace' = Append(trace, "respond")
    /\ UNCHANGED <<CONNECT_INSTANCE_ID, earlier, event, route_type, route_key, body,
                   handler_fn, outcome, result, exc, raised, writes>>

\* the invocation is over; the container waits for the next event.  The
\* history may keep this invocation's scoring call.
Finish ==
    /\ pc = "done"
    /\ \/ earlier' = IF earlier.body = Null THEN earlier
                      ELSE [earlier EXCEPT !.between = TRUE]
       \/ /\ handler_fn = "handle_scoring"
          /\ outcome.kind = "return"
          /\ body \in Remembered
          /\ earlier' = [body |-> body, scores |-> ScoresOf(outcome.value.v),
                         between |-> FALSE]
    /\ pc' = "idle"
    /\ event' = EmptyMap
    /\ route_type' = ""
    /\ route_key' = Null
    /\ body' = Null
    /\ handler_fn' = ""
    /\ outcome' = NoOutcome
    /\ result' = Null
    /\ response' = NoResponse
    /\ exc' = NoExc
    /\ raised' = ""
    /\ writes' = <<>>
    /\ trace' = <<>>
    /\ UNCHANGED CONNECT_INSTANCE_ID

Next ==
    \/ Invoke
    \/ ExtractRouteAndBody
    \/ ResolveHandler
    \/ RespondNotFound
    \/ CallOperation
    \/ SaveContactAttributes
    \/ BuildResponse
    \/ HandleException
    \/ Finish

Spec == Init /\ [][Next]_vars

-----------------------------------------------------------------------------
(* the scoring engine on its own: handle_scoring applied to a grid of bodies *)

Opt(key, values) == {EmptyMap} \cup {key :> x : x \in values}

\* k challenges, none of them a priority challenge
Challenges(k) == List([i \in 1..k |-> S("behind_on_rent")])

GridInputs ==
    {a @@ b @@ c @@ d @@ e @@ f @@ g @@ h @@ i :
        a \in Opt("housing_situation",
                  {S("homeless"), S("renting_month_to_month"), S("owner_no_mortgage")}),
        b \in Opt("monthly_income", {PyInt(800), PyInt(2500), PyInt(6000)}),
        c \in {"monthly_housing_cost" :> x : x \in {PyInt(0), PyInt(900), PyInt(1300)}},
        d \in Opt("housing_challenges",
                  {Challenges(1), List(<<S("behind_on_rent"), S("eviction_notice")>>)}),
        e \in Opt("employment_status",
                  {S("unemployed"), S("part_time"), S("full_time_above_standard")}),
        f \in Opt("has_benefits", {B(TRUE)}),
        g \in Opt("monthly_expenses", {PyInt(2000), PyInt(2400)}),
        h \in Opt("savings_rate", {PyFloat(2), PyFloat(15)}),
        i \in Opt("fico_range", {S("580-669"), S("800+")})}

\* boundary values of the housing inputs, the other fields absent
HousingInputs ==
    {a @@ b @@ c @@ d :
        a \in Opt("housing_situation",
                  {S("homeless"), S("shelter"), S("couch_surfing"), S("renting_unstable"),
                   S("renting_stable"), S("owner"), S("houseboat"),
                   Str(<<" ", "homeless">>)}),
        b \in Opt("monthly_income", {PyInt(-100), PyInt(0), PyInt(2500)}),
        c \in Opt("monthly_housing_cost",
                  {PyInt(-100), PyInt(0), PyInt(500), PyInt(501), PyInt(750),
                   PyInt(1000), PyInt(1001), PyInt(1250), PyInt(1251)}),
        d \in Opt("housing_challenges",
                  {Challenges(k) : k \in 0..MaxChallenges}
                  \cup {List(<<S("shutoff_notice")>>), List(<<S("homeless")>>)})}

\* boundary values of the employment inputs
EmploymentInputs ==
    {a @@ b @@ c :
        a \in Opt("employment_status",
                  {S("unable_to_work"), S("gig_work"), S("self_employed"), S("retired"),
                   S("full_time"), S("full_time_above_standard"), S("astronaut")}),
        b \in Opt("has_benefits", {B(TRUE), B(FALSE)}),
        c \in Opt("monthly_income",
                  {PyInt(-100), PyInt(0), PyInt(2099), PyInt(2100), PyInt(3359),
                   PyInt(3360), PyInt(6000)})}

\* boundary values of the financial inputs
FinancialInputs ==
    {a @@ b @@ c @@ d :
        a \in Opt("monthly_income", {PyInt(-100), PyInt(0), PyInt(1000)}),
        b \in Opt("monthly_expenses",
                  {PyInt(-100), PyInt(500), PyInt(501), PyInt(700), PyInt(701),
                   PyInt(900), PyInt(901), PyInt(1000), PyInt(1001)}),
        c \in Opt("savings_rate",
                  {PyFloat(-5), PyInt(0), PyFloat(2), PyFloat(3), PyFloat(9),
                   PyFloat(10), PyFloat(19), PyFloat(20), PyInt(1)}),
        d \in Opt("fico_range",
                  {S("below_580"), S("580-669"), S("670-739"), S("740-799"),
                   S("800+"), S("unknown"), S("excellent")})}

ScoringInputs == GridInputs \cup HousingInputs \cup EmploymentInputs \cup FinancialInputs

InitScoring ==
    /\ CONNECT_INSTANCE_ID = EmptyStr
    /\ earlier = NoEarlier
    /\ pc = "score_call"
    /\ body \in {Dict(d) : d \in ScoringInputs}
    /\ event = EmptyMap
    /\ route_type = ""
    /\ route_key = Null
    /\ handler_fn = "handle_scoring"
    /\ outcome = NoOutcome
    /\ result = Null
    /\ response = NoResponse
    /\ exc = NoExc
    /\ raised = ""
    /\ writes = <<>>
    /\ trace = <<>>

\* outcome = handle_scoring(body)
ScoreCall ==
    /\ pc = "score_call"
    /\ outcome' = handle_scoring(body)
    /\ result' = outcome'.value
    /\ pc' = "score_done"
    /\ UNCHANGED <<CONNECT_INSTANCE_ID, earlier, event, route_type, route_key, body,
                   handler_fn, response, exc, raised, writes, trace>>

NextScoring == ScoreCall

SpecScoring == InitScoring /\ [][NextScoring]_vars

-----------------------------------------------------------------------------
(* the end of handler on its own: the persistence step and the response for  *)
(* results as an operation may return them, with and without                 *)
(* sessionAttributes (customer_profile.py returns the field)                 *)

SessionOpts ==
    {EmptyMap,
     "sessionAttributes" :> Null,
     "sessionAttributes" :> Dict(EmptyMap),
     "sessionAttributes" :> Dict("profile_id" :> S("p-1")),
     "sessionAttributes" :> Dict(("profile_id" :> S("p-2")) @@ ("is_returning" :> B(TRUE)))}

\* results of the shape handle_customer_profile returns
ProfileResults ==
    {("profile_id" :> S(p)) @@ ("is_returning" :> B(r)) @@ ("first_name" :> S(f))
        @@ ("message" :> S("Welcome")) :
        p \in {"", "p-1"}, r \in BOOLEAN, f \in {"Ann", "Bo"}}

OperationResults ==
    {base @@ sa :
        base \in ProfileResults
                 \cup {handle_scoring(Dict(d)).value.v : d \in {ScenarioA, ScenarioB, ScenarioC}}
                 \cup {handle_resource_lookup(Dict("keyword" :> S("food")), http).value.v :
                         http \in HttpOutcomes},
        sa \in SessionOpts}

\* the requests of these results: without ids, and with two valid ids
ResponseBodies ==
    {"first_name" :> S("Ann"),
     ("firstName" :> S("Ann")) @@ ("instance_id" :> ValidInstance)
        @@ ("contact_id" :> ValidContact)}

\* result = handler_fn(body) has just returned
InitResponse ==
    /\ CONNECT_INSTANCE_ID = EmptyStr
    /\ earlier = NoEarlier
    /\ pc = "operated"
    /\ body \in {Dict(d) : d \in ResponseBodies}
    /\ event = [k \in {"action", "payload"} |->
                  IF k = "action" THEN S("customer_profile") ELSE body]
    /\ route_type = "action"
    /\ route_key = S("customer_profile")
    /\ handler_fn = "handle_customer_profile"
    /\ result \in {Dict(r) : r \in OperationResults}
    /\ outcome = Return(result)
    /\ response = NoResponse
    /\ exc = NoExc
    /\ raised = ""
    /\ writes = <<>>
    /\ trace = <<"extract", "resolve", "op_call", "op_return">>

NextResponse ==
    \/ SaveContactAttributes
    \/ BuildResponse
    \/ HandleException
    \/ Finish

SpecResponse == InitResponse /\ [][NextResponse]_vars

-----------------------------------------------------------------------------
(* properties of the scoring engine, checked under SpecScoring *)

ScoringReturned == pc = "score_done" /\ outcome.kind = "return"

\* the fields of the returned scoring result, numbers in hundredths
HousingScore == outcome.value.v["housing_score"].v
EmploymentScore == outcome.value.v["employment_score"].v
FinancialScore == outcome.value.v["financial_resilience_score"].v
CompositeScore == outcome.value.v["composite_score"].v
PriorityFlag == outcome.value.v["priority_flag"].v
RecommendedPath == outcome.value.v["recommended_path"]

\* the request's housing_challenges (none when the field is absent)
RequestChallenges ==
    IF "housing_challenges" \in DOMAIN body.v
    THEN {body.v["housing_challenges"].v[i] :
            i \in 1..Len(body.v["housing_challenges"].v)}
    ELSE {}

RequestIs(key, value) == key \in DOMAIN body.v /\ body.v[key] = value

\* C1: whenever handle_scoring returns, each domain score lies in [1,5] and
\* composite_score is the mean of the three scores rounded to two decimals
\* (within half a hundredth of the mean), hence in [1,5] too.
C1_ScoresInRange ==
    ScoringReturned =>
        /\ \A x \in {HousingScore, EmploymentScore, FinancialScore, CompositeScore} :
             1 * Scale <= x /\ x <= 5 * Scale
        /\ 2 * Abs(3 * CompositeScore - (HousingScore + EmploymentScore + FinancialScore)) <= 3

\* a negative income, a domain score clamped to 1 and a composite that was rounded
C1_Witness ==
    /\ ScoringReturned
    /\ "monthly_income" \in DOMAIN body.v
    /\ body.v["monthly_income"].v < 0
    /\ EmploymentScore = 1 * Scale
    /\ (HousingScore + EmploymentScore + FinancialScore) % 3 # 0

\* C2: priority_flag is true exactly when a domain score equals 1, or
\* housing_challenges holds eviction_notice, shutoff_notice or homeless, or
\* housing_situation is exactly "homeless".
C2_PriorityFlag ==
    ScoringReturned =>
        (PriorityFlag <=>
            \/ HousingScore = 1 * Scale
            \/ EmploymentScore = 1 * Scale
            \/ FinancialScore = 1 * Scale
            \/ RequestChallenges
                 \cap {S("eviction_notice"), S("shutoff_notice"), S("homeless")} # {}
            \/ RequestIs("housing_situation", S("homeless")))

\* the flag set by a listed challenge alone: no score is 1, nobody is homeless
C2_Witness ==
    /\ ScoringReturned
    /\ PriorityFlag
    /\ HousingScore > 1 * Scale
    /\ EmploymentScore > 1 * Scale
    /\ FinancialScore > 1 * Scale
    /\ ~RequestIs("housing_situation", S("homeless"))
    /\ S("shutoff_notice") \in RequestChallenges

\* C3: recommended_path is direct_support exactly when priority_flag is set
\* or composite_score < 2.5.
C3_DirectSupport ==
    ScoringReturned =>
        (RecommendedPath = S("direct_support") <=> (PriorityFlag \/ CompositeScore < 250))

\* a composite of exactly 2.5 without the flag is not direct_support
C3_Witness ==
    /\ ScoringReturned
    /\ CompositeScore = 250
    /\ ~PriorityFlag
    /\ RecommendedPath # S("direct_support")

\* C4 as stated: recommended_path is mixed exactly when 2.5 <= composite <= 3.5,
\* and referral in every remaining case that is not direct_support.
C4_MixedIffInBand ==
    ScoringReturned =>
        /\ RecommendedPath = S("mixed") <=> (250 <= CompositeScore /\ CompositeScore <= 350)
        /\ RecommendedPath \notin {S("mixed"), S("direct_support")}
             => RecommendedPath = S("referral")

\* C4 amended: recommended_path is mixed exactly when priority_flag is false
\* and 2.5 <= composite <= 3.5 (both bounds inclusive), and referral in every
\* remaining case that is not direct_support (priority_flag false, composite > 3.5).
C4_MixedIffInBandNoPriority ==
    ScoringReturned =>
        /\ RecommendedPath = S("mixed")
             <=> (~PriorityFlag /\ 250 <= CompositeScore /\ CompositeScore <= 350)
        /\ RecommendedPath = S("referral") <=> (~PriorityFlag /\ CompositeScore > 350)
        /\ RecommendedPath \in {S("direct_support"), S("mixed"), S("referral")}

\* the upper bound is inclusive: a composite of exactly 3.5 is mixed
C4_Witness ==
    /\ ScoringReturned
    /\ CompositeScore = 350
    /\ ~PriorityFlag
    /\ RecommendedPath = S("mixed")

\* the body holds none but the nine scoring input fields
OnlyScoringFields ==
    DOMAIN body.v \subseteq
        {"housing_situation", "monthly_income", "monthly_housing_cost",
         "housing_challenges", "employment_status", "has_benefits",
         "monthly_expenses", "savings_rate", "fico_range"}

\* C18: the scoring operation does not raise for missing fields: whichever
\* of the nine input fields the body omits, handle_scoring returns a success
\* result.
C18_MissingFieldsDefaulted ==
    (pc = "score_done" /\ OnlyScoringFields) =>
        /\ outcome.kind = "return"
        /\ outcome.value.v["status"] = S("success")

\* data.get(key, 0) of a numeric request field, in hundredths
RequestNumber(key) == IF key \in DOMAIN body.v THEN body.v[key].v ELSE 0

\* len(data.get('housing_challenges', []))
ChallengeCount ==
    IF "housing_challenges" \in DOMAIN body.v THEN Len(body.v["housing_challenges"].v)
    ELSE 0

\* C24: the housing score is base + ratio_adj + challenge_adj clamped to [1,5];
\* the ratio is housing cost over income, 1.0 when income <= 0; ratio_adj is
\* -2 above 0.50, -1 above 0.40, 0 above 0.20 and +1 otherwise, so that exactly
\* 0.50 gives -1 and exactly 0.20 gives +1; challenge_adj is -0.5 for each
\* listed challenge, at most four of them counted.
C24_HousingScoreFormula ==
    ScoringReturned =>
        LET income == RequestNumber("monthly_income")
            cost == RequestNumber("monthly_housing_cost")
            above(c) == IF income > 0 THEN cost * 100 > c * income ELSE 100 > c
            ratio_adj == IF above(50) THEN -200
                         ELSE IF above(40) THEN -100
                         ELSE IF above(20) THEN 0
                         ELSE 100
            counted == IF ChallengeCount > 4 THEN 4 ELSE ChallengeCount
            challenge_adj == -50 * counted
            raw == 100 * _score_housing(body.v).base + ratio_adj + challenge_adj
        IN  /\ challenge_adj >= -200
            /\ HousingScore = IF raw < 100 THEN 100 ELSE IF raw > 500 THEN 500 ELSE raw

\* a home owned outright at a cost of exactly half the income, with five
\* challenges listed: 5 - 1 - 2 = 2
C24_Witness ==
    /\ ScoringReturned
    /\ RequestIs("housing_situation", S("owner"))
    /\ RequestIs("monthly_income", PyInt(2500))
    /\ RequestIs("monthly_housing_cost", PyInt(1250))
    /\ ChallengeCount = 5
    /\ HousingScore = 200

\* C25: the employment score is base + benefits_adj + income_adj clamped to
\* [1,5]; benefits_adj is +0.5 with has_benefits and -0.5 without; income_adj
\* is -1 for an income that is 0, unset or negative, and otherwise -1 below
\* half of 4200, 0 below 0.80 of it and +0.5 from there on, so that 2100 gives
\* 0 and 3360 gives +0.5.
C25_EmploymentScoreFormula ==
    ScoringReturned =>
        LET income == RequestNumber("monthly_income")
            benefits_adj == IF RequestIs("has_benefits", B(TRUE)) THEN 50 ELSE -50
            below(c) == income * 100 < c * 4200 * 100
            income_adj == IF income <= 0 THEN -100
                          ELSE IF below(50) THEN -100
                          ELSE IF below(80) THEN 0
                          ELSE 50
            raw == 100 * _score_employment(body.v).base + benefits_adj + income_adj
        IN  EmploymentScore = IF raw < 100 THEN 100 ELSE IF raw > 500 THEN 500 ELSE raw

\* gig work with benefits at an income of exactly 3360: 2 + 0.5 + 0.5 = 3
C25_Witness ==
    /\ ScoringReturned
    /\ RequestIs("employment_status", S("gig_work"))
    /\ RequestIs("has_benefits", B(TRUE))
    /\ RequestIs("monthly_income", PyInt(3360))
    /\ EmploymentScore = 300

\* the request names a key of the table under this field
Listed(key, table) ==
    /\ key \in DOMAIN body.v
    /\ body.v[key].t = "str" /\ Len(body.v[key].v) = 1
    /\ body.v[key].v[1] \in DOMAIN table

\* C26: the financial-resilience score is base + savings_adj + fico_adj clamped
\* to [1,5]; the expense ratio is expenses over income, 1.5 when income <= 0;
\* base is 1 above 1.0, 2 above 0.90, 3 above 0.70, 4 above 0.50 and 5
\* otherwise; savings_adj is -1 for a rate <= 0, -0.5 below 0.03, 0 below 0.10,
\* +0.5 below 0.20 and +1 otherwise; fico_adj is the table's value, 0 for a
\* range the table does not list.
C26_FinancialScoreFormula ==
    ScoringReturned =>
        LET income == RequestNumber("monthly_income")
            expenses == RequestNumber("monthly_expenses")
            rate == RequestNumber("savings_rate")
            above(c) == IF income > 0 THEN expenses * 100 > c * income ELSE 150 > c
            base == IF above(100) THEN 1
                    ELSE IF above(90) THEN 2
                    ELSE IF above(70) THEN 3
                    ELSE IF above(50) THEN 4
                    ELSE 5
            savings_adj == IF rate <= 0 THEN -100
                           ELSE IF rate < 3 THEN -50
                           ELSE IF rate < 10 THEN 0
                           ELSE IF rate < 20 THEN 50
                           ELSE 100
            fico_adj == IF Listed("fico_range", FICO_RANGES)
                        THEN FICO_RANGES[body.v["fico_range"].v[1]]
                        ELSE 0
            raw == 100 * base + savings_adj + fico_adj
        IN  FinancialScore = IF raw < 100 THEN 100 ELSE IF raw > 500 THEN 500 ELSE raw

\* expenses of exactly 0.70 of the income, a savings rate of exactly 0.10 and
\* a range the table does not list: 4 + 0.5 + 0 = 4.5
C26_Witness ==
    /\ ScoringReturned
    /\ RequestIs("monthly_income", PyInt(1000))
    /\ RequestIs("monthly_expenses", PyInt(700))
    /\ RequestIs("savings_rate", PyFloat(10))
    /\ RequestIs("fico_range", S("excellent"))
    /\ FinancialScore = 450

\* the claim as written: an omitted or unlisted housing situation, and an
\* omitted or unlisted employment status, have the base value 3
C27_UnknownBaseThree ==
    ScoringReturned =>
        /\ ~Listed("housing_situation", HOUSING_SITUATION_BASE)
              => _score_housing(body.v).base = 3
        /\ ~Listed("employment_status", EMPLOYMENT_STATUS_BASE)
              => _score_employment(body.v).base = 3

\* C27: a housing situation that is sent and is not one of the listed
\* situations has the base value 3, and so has an employment status that is
\* sent and not listed; an omitted housing situation counts as renting_stable
\* and an omitted employment status as full_time, each with the base value 4.
C27_UnlistedBaseThree ==
    ScoringReturned =>
        /\ ("housing_situation" \in DOMAIN body.v
                /\ ~Listed("housing_situation", HOUSING_SITUATION_BASE))
              => _score_housing(body.v).base = 3
        /\ ("employment_status" \in DOMAIN body.v
                /\ ~Listed("employment_status", EMPLOYMENT_STATUS_BASE))
              => _score_employment(body.v).base = 3
        /\ "housing_situation" \notin DOMAIN body.v
              => _score_housing(body.v).base = 4
        /\ "employment_status" \notin DOMAIN body.v
              => _score_employment(body.v).base = 4

\* an unlisted situation scored from the base 3: at a cost of 0.30 of the
\* income and with one challenge, 3 + 0 - 0.5 = 2.5
C27_Witness ==
    /\ ScoringReturned
    /\ RequestIs("housing_situation", S("houseboat"))
    /\ RequestIs("monthly_income", PyInt(2500))
    /\ RequestIs("monthly_housing_cost", PyInt(750))
    /\ ChallengeCount = 1
    /\ _score_housing(body.v).base = 3
    /\ HousingScore = 250

-----------------------------------------------------------------------------
(* properties of handler, checked under Spec *)

\* the invocation is over and handler returned a response
Responded == pc = "done" /\ raised = ""

\* the decoded body of the response
ResponseBody == json_loads(response.body).value.v

\* the request reached the scoring operation by the Gateway path with body d
GatewayScoring(d) ==
    /\ Responded
    /\ "httpMethod" \in DOMAIN event
    /\ route_type = "path"
    /\ route_key = S("/scoring/calculate")
    /\ body = Dict(d)

\* C5: through the Gateway path /scoring/calculate the three reference
\* scenarios answer with status 200 and: A direct_support, priority_flag true,
\* composite < 2.5; B mixed, priority_flag false, 2.5 <= composite <= 3.5;
\* C referral, composite > 3.5.
C5_ReferenceScenarios ==
    /\ GatewayScoring(ScenarioA) =>
         /\ response.statusCode = 200
         /\ ResponseBody["recommended_path"] = S("direct_support")
         /\ ResponseBody["priority_flag"] = B(TRUE)
         /\ ResponseBody["composite_score"].v < 250
    /\ GatewayScoring(ScenarioB) =>
         /\ response.statusCode = 200
         /\ ResponseBody["recommended_path"] = S("mixed")
         /\ ResponseBody["priority_flag"] = B(FALSE)
         /\ 250 <= ResponseBody["composite_score"].v
         /\ ResponseBody["composite_score"].v <= 350
    /\ GatewayScoring(ScenarioC) =>
         /\ response.statusCode = 200
         /\ ResponseBody["recommended_path"] = S("referral")
         /\ ResponseBody["composite_score"].v > 350

\* scenario B, sent as the JSON string of a Gateway event, has been answered
C5_Witness ==
    /\ GatewayScoring(ScenarioB)
    /\ event["body"].t = "json"
    /\ response.statusCode = 200
    /\ ResponseBody["composite_score"].v = 250

\* the string-valued body or arguments field that handler decodes is not JSON
MalformedRequest ==
    \/ /\ "httpMethod" \in DOMAIN event \/ "resource" \in DOMAIN event
       /\ "body" \in DOMAIN event
       /\ IsStr(event["body"]) /\ Truthy(event["body"])
       /\ json_loads(event["body"]).kind = "raise"
    \/ /\ ~("httpMethod" \in DOMAIN event \/ "resource" \in DOMAIN event)
       /\ "toolName" \in DOMAIN event
       /\ "arguments" \in DOMAIN event
       /\ IsStr(event["arguments"])
       /\ json_loads(event["arguments"]).kind = "raise"

\* C6: malformed JSON in a string-valued Gateway body or Tool arguments never
\* makes handler raise: the invocation ends with an error response, status
\* 500 or 400.
C6_MalformedJsonAnswered ==
    (MalformedRequest /\ pc = "done") =>
        /\ raised = ""
        /\ response.statusCode \in {400, 500}

\* the operation handler returned successfully
OperationReturned == outcome.kind = "return"

\* the 200 response of the operation's result
PrimaryResponse ==
    _response(200, [k \in DOMAIN result.v \ {"sessionAttributes"} |-> result.v[k]])

\* C7: whenever the operation handler returned successfully the invocation
\* ends with the same 200 response, whatever the persistence step did.
C7_PersistenceNeverChangesResponse ==
    (pc = "done" /\ OperationReturned) =>
        /\ raised = ""
        /\ response = PrimaryResponse

\* C8: update_contact_attributes is called only after the operation handler
\* has returned: every write in the order of steps follows an op_return, and
\* an invocation whose route did not resolve or whose operation raised has
\* made no write.
C8_WriteOnlyAfterOperation ==
    /\ \A i \in 1..Len(trace) :
         trace[i] = "write" => \E j \in 1..(i - 1) : trace[j] = "op_return"
    /\ Len(writes) > 0 => (handler_fn # "" /\ OperationReturned)
    /\ (pc = "done" /\ response.statusCode = 404) => Len(writes) = 0
    /\ outcome.kind = "raise" => Len(writes) = 0

\* a write was made and the invocation answered 200
C8_Witness ==
    /\ Responded
    /\ Len(writes) = 1
    /\ response.statusCode = 200
    /\ trace = <<"extract", "resolve", "op_call", "op_return", "save", "write", "respond">>

\* the persistence step has run in this invocation
PersistenceRan == OperationReturned /\ pc \in {"saved", "except", "done"}

\* x, read from the request or the configuration, is no usable id: absent,
\* blank, or not of the 8-4-4-4-12 hexadecimal shape once trimmed
UnusableId(x) ==
    \/ ~Truthy(x)
    \/ x.t # "str"
    \/ Len(strip(x.v)) = 0
    \/ LET id == strip(x.v)
       IN  ~(/\ Len(id) = 36
             /\ \A i \in 1..36 :
                  IF i \in {9, 14, 19, 24} THEN id[i] = "-" ELSE id[i] \in HexDigits)

\* the instance id in force: the body's when it gives one, else the configured
EffectiveInstance ==
    IF Truthy(Get(body.v, "instance_id", Null)) THEN body.v["instance_id"]
    ELSE CONNECT_INSTANCE_ID

\* C9: when the effective instance id or the contact id is absent, blank or
\* not of the UUID shape, no write is attempted, the step does not raise and
\* the primary response is returned.
C9_InvalidIdsSkipQuietly ==
    (/\ PersistenceRan
     /\ UnusableId(EffectiveInstance) \/ UnusableId(Get(body.v, "contact_id", Null))) =>
        /\ Len(writes) = 0
        /\ pc # "except"
        /\ pc = "done" => (raised = "" /\ response = PrimaryResponse)

\* the canonical names of the request whitelist and of the result whitelist
RequestAttributeNames ==
    {"firstName", "lastName", "zipCode", "county", "contactMethod", "phoneNumber",
     "emailAddress", "preferredDays", "preferredTimes", "needCategory",
     "needSubcategory", "path", "age", "hasChildrenUnder18", "employmentStatus",
     "employer", "militaryAffiliation", "publicAssistance", "housingSituation",
     "monthlyIncome", "monthlyHousingCost", "monthlyExpenses", "savingsRate",
     "ficoRange", "hasBenefits", "partnerEmployee", "partnerEmployer",
     "escalationRoute"}

ResultAttributeNames ==
    {"housingScore", "employmentScore", "financialResilienceScore",
     "compositeScore", "priorityFlag", "recommendedPath"}

\* the request keys that the whitelist maps to the canonical name
AliasesOf(name) == {ATTR_MAP[i][1] : i \in {j \in 1..Len(ATTR_MAP) : ATTR_MAP[j][2] = name}}

\* C10: the keys of every attribute set passed to the store are canonical
\* names of the two whitelists; a request attribute is there only for an
\* alias that is present, not None and non-blank once trimmed, and carries
\* that trimmed value; no other field of the request or result is written.
C10_OnlyWhitelistedAttributes ==
    \A n \in 1..Len(writes) :
        LET attributes == writes[n].Attributes
        IN  /\ DOMAIN attributes \subseteq RequestAttributeNames \cup ResultAttributeNames
            /\ DOMAIN attributes
                 \cap {"instance_id", "contact_id", "record_id", "message", "status"} = {}
            /\ \A name \in DOMAIN attributes \cap RequestAttributeNames :
                 \E key \in AliasesOf(name) :
                    /\ key \in DOMAIN body.v
                    /\ body.v[key].t # "null"
                    /\ Len(strip(PyStr(body.v[key]))) > 0
                    /\ attributes[name] = Str(strip(PyStr(body.v[key])))

\* a write for a request with a blank firstName, a padded lastName, a None
\* county and fields outside the whitelist
C10_Witness ==
    /\ Len(writes) = 1
    /\ {"firstName", "lastName", "county", "record_id", "message", "contact_id"}
         \subseteq DOMAIN body.v
    /\ "lastName" \in DOMAIN writes[1].Attributes
    /\ writes[1].Attributes["lastName"] = S("Doe")
    /\ "compositeScore" \in DOMAIN writes[1].Attributes

\* both correlation ids are of the UUID shape once trimmed
IdsValid ==
    /\ ~UnusableId(EffectiveInstance)
    /\ ~UnusableId(Get(body.v, "contact_id", Null))

\* no whitelisted request field carries a non-blank value and no whitelisted
\* result field is present
MergedSetEmpty ==
    /\ \A i \in 1..Len(ATTR_MAP) :
         LET value == Get(body.v, ATTR_MAP[i][1], Null)
         IN  value.t = "null" \/ Len(strip(PyStr(value))) = 0
    /\ \A i \in 1..Len(score_fields) :
         Get(result.v, score_fields[i][1], Null).t = "null"

\* C11: when both correlation ids are valid and the merged attribute set is
\* empty, no external call is made: no update_contact_attributes call, no
\* exception from creating the client; and no call ever carries an empty
\* attribute set.
C11_EmptySetNoCall ==
    /\ (PersistenceRan /\ IdsValid /\ MergedSetEmpty) =>
         /\ Len(writes) = 0
         /\ \A i \in 1..Len(trace) : trace[i] # "write"
         /\ pc # "except"
    /\ \A n \in 1..Len(writes) : DOMAIN writes[n].Attributes # {}

\* a lookup with a blank keyword and two valid ids has been answered
C11_Witness ==
    /\ pc = "done"
    /\ PersistenceRan
    /\ IdsValid
    /\ MergedSetEmpty
    /\ body = Dict(QuietLookup)
    /\ response.statusCode = 200
    /\ trace = <<"extract", "resolve", "op_call", "op_return", "save", "respond">>

\* the (invocation kind, operation key) pairs the three route tables hold
RegisteredRoutes ==
    {<<"path", "/scoring/calculate">>, <<"path", "/resources/search">>,
     <<"tool", "scoringCalculate">>, <<"tool", "resourceLookup">>,
     <<"action", "scoring">>, <<"action", "resource_lookup">>}

\* normalization has returned this invocation's (route_type, route_key)
Normalized == \E i \in 1..Len(trace) : trace[i] = "extract"

\* the pair normalization returned is in no route table
Unrouted ==
    /\ Normalized
    /\ ~(/\ route_key.t = "str"
         /\ Len(route_key.v) = 1
         /\ <<route_type, route_key.v[1]>> \in RegisteredRoutes)

\* the text of the operation key in a message: the key, "None" for no key
KeyText == IF route_key.t = "str" THEN route_key.v ELSE <<"None">>

\* C12: a request whose (invocation kind, operation key) pair, as
\* normalization returned it, is in no route table is answered 404 with the
\* message "Unknown route: <key>"; no operation handler runs and no attribute
\* write is made.
C12_UnknownRouteNotFound ==
    Unrouted =>
        /\ \A i \in 1..Len(trace) : trace[i] \notin {"op_call", "save", "write"}
        /\ outcome = NoOutcome
        /\ Len(writes) = 0
        /\ pc = "done" =>
             /\ raised = ""
             /\ response.statusCode = 404
             /\ ResponseBody = [k \in {"error"} |-> Str(<<"Unknown route: ">> \o KeyText)]

\* a Direct request for an action no table holds has been answered 404
C12_Witness ==
    /\ pc = "done"
    /\ Unrouted
    /\ route_type = "action"
    /\ route_key = S("case_status")
    /\ response.statusCode = 404
    /\ trace = <<"extract", "resolve", "respond">>

\* the envelope has none of the fields that mark a recognized shape
UnknownShape ==
    DOMAIN event \cap {"httpMethod", "resource", "path", "toolName", "action"} = {}

\* C13: for an envelope of none of the recognized shapes handler does not
\* raise: the envelope is classified unknown with no operation key and the
\* invocation ends with a 404 response.
C13_UnknownShapeNotFound ==
    (pc = "done" /\ UnknownShape) =>
        /\ raised = ""
        /\ route_type = "unknown"
        /\ route_key = Null
        /\ response.statusCode = 404

\* C14: when the resolved operation raises, a ValueError is answered 400 with
\* the exception's message and every other exception is answered 500 with
\* exactly the body {"error": "Internal server error"}.
C14_OperationErrors ==
    (pc = "done" /\ outcome.kind = "raise") =>
        /\ raised = ""
        /\ IF outcome.exc = "ValueError"
           THEN /\ response.statusCode = 400
                /\ ResponseBody = [k \in {"error"} |-> Str(outcome.msg)]
           ELSE /\ response.statusCode = 500
                /\ ResponseBody = [k \in {"error"} |-> S("Internal server error")]

\* the scoring operation raised TypeError on an ill-typed field and the
\* invocation was answered 500
C14_Witness ==
    /\ pc = "done"
    /\ outcome.kind = "raise"
    /\ outcome.exc = "TypeError"
    /\ handler_fn = "handle_scoring"
    /\ response.statusCode = 500
    /\ trace = <<"extract", "resolve", "op_call", "op_raise", "respond">>

\* the header set of index.py's _response, written out
FixedHeaders ==
    ("Content-Type" :> "application/json") @@ ("Cache-Control" :> "no-store")
    @@ ("Strict-Transport-Security" :> "max-age=31536000; includeSubDomains")
    @@ ("X-Content-Type-Options" :> "nosniff")

\* C16: every response envelope handler returns, whatever its status code
\* (200, 400, 404 or 500), carries the same four headers: Content-Type
\* application/json, Cache-Control no-store, Strict-Transport-Security and
\* X-Content-Type-Options nosniff.
C16_FixedHeaders ==
    (pc = "done" /\ raised = "") =>
        /\ response.statusCode \in {200, 400, 404, 500}
        /\ DOMAIN response = {"statusCode", "headers", "body"}
        /\ response.headers = FixedHeaders

\* a 500 response carrying the four headers
C16_Witness ==
    /\ pc = "done"
    /\ raised = ""
    /\ response.statusCode = 500
    /\ DOMAIN response.headers =
         {"Content-Type", "Cache-Control", "Strict-Transport-Security",
          "X-Content-Type-Options"}

\* the registered operations: their key per invocation kind and their handler
Operations ==
    {[path |-> "/scoring/calculate", tool |-> "scoringCalculate",
      action |-> "scoring", handler |-> "handle_scoring"],
     [path |-> "/resources/search", tool |-> "resourceLookup",
      action |-> "resource_lookup", handler |-> "handle_resource_lookup"]}

\* operation o invoked with body d as a Gateway path (body as JSON text or as
\* an object), as a Tool name (bare, or with a "target___" prefix and the
\* arguments as JSON text) and as a Direct action with a payload
RouteForms(o, d) ==
    {("resource" :> S(o.path)) @@ ("httpMethod" :> S("POST")) @@ ("body" :> json_dumps(d)),
     ("httpMethod" :> S("POST")) @@ ("path" :> S(o.path)) @@ ("body" :> Dict(d)),
     ("toolName" :> S(o.tool)) @@ ("arguments" :> Dict(d)),
     ("toolName" :> Str(<<"target", "___", o.tool>>)) @@ ("arguments" :> json_dumps(d)),
     ("action" :> S(o.action)) @@ ("payload" :> Dict(d))}

\* handler h applied to body b when the directory answers http
Operate(h, b, http) ==
    IF h = "handle_scoring" THEN handle_scoring(b) ELSE handle_resource_lookup(b, http)

\* two outcomes agree: both raise the same exception, or both return the same
\* result but for the record id
SameResult(x, y) ==
    /\ x.kind = y.kind
    /\ x.exc = y.exc
    /\ x.msg = y.msg
    /\ x.kind = "return" =>
         /\ DOMAIN x.value.v = DOMAIN y.value.v
         /\ \A k \in DOMAIN x.value.v \ {"record_id"} : x.value.v[k] = y.value.v[k]

\* C17: the three route tables hold the same set of handlers, and for the
\* operation and body of every resolved request each way of invoking that
\* operation with that body (Gateway path, Tool name bare or prefixed, Direct
\* action) normalizes to the same body, resolves to the same handler and
\* gives the same operation result.
C17_RoutingEquivalence ==
    /\ {PATH_ROUTES[k] : k \in DOMAIN PATH_ROUTES}
         = {TOOL_ROUTES[k] : k \in DOMAIN TOOL_ROUTES}
    /\ {TOOL_ROUTES[k] : k \in DOMAIN TOOL_ROUTES}
         = {ACTION_ROUTES[k] : k \in DOMAIN ACTION_ROUTES}
    /\ \A o \in Operations :
         (pc = "resolved" /\ handler_fn = o.handler /\ body.t = "dict") =>
            \A e \in RouteForms(o, body.v) :
                LET r == _extract_route_and_body(e)
                IN  /\ r.kind = "return"
                    /\ r.value.body = body
                    /\ _resolve_handler(r.value.route_type, r.value.route_key) = o.handler
                    /\ \A http \in HttpOutcomes :
                         SameResult(
                            Operate(_resolve_handler(r.value.route_type, r.value.route_key),
                                    r.value.body, http),
                            Operate(handler_fn, body, http))

\* scenario B, sent as the JSON arguments of a prefixed tool name, has been
\* scored
C17_Witness ==
    /\ pc = "done"
    /\ "toolName" \in DOMAIN event
    /\ Len(event["toolName"].v) = 3
    /\ event["arguments"].t = "json"
    /\ handler_fn = "handle_scoring"
    /\ body = Dict(ScenarioB)
    /\ response.statusCode = 200
    /\ ResponseBody["recommended_path"] = S("mixed")

GatewayFields == DOMAIN event \cap {"httpMethod", "resource", "path"} # {}

\* C20: an envelope with an httpMethod, a resource or a path field is
\* classified Gateway, and its operation key is the resource when the
\* envelope gives one, else the path.
C20_GatewayClassification ==
    (Normalized /\ GatewayFields) =>
        /\ route_type = "path"
        /\ route_key = IF Truthy(Get(event, "resource", Null)) THEN event["resource"]
                       ELSE Get(event, "path", route_key)

\* an envelope handler reads as a tool call: it has toolName and neither
\* httpMethod nor resource
ToolEnvelope ==
    /\ "toolName" \in DOMAIN event
    /\ DOMAIN event \cap {"httpMethod", "resource"} = {}

SeparatorsOf(name) == {i \in 1..Len(name) : name[i] = Separator}

\* C21: for a tool envelope the routing key is the whole toolName when it
\* holds no "___", and otherwise everything after the first "___", later
\* separators staying part of the key; the body is the arguments field,
\* decoded from JSON when it is a string.
C21_ToolKeyAndBody ==
    (Normalized /\ ToolEnvelope) =>
        LET name == event["toolName"].v
            seps == SeparatorsOf(name)
        IN  /\ route_type = "tool"
            /\ seps = {} => route_key = event["toolName"]
            /\ seps # {} =>
                 \E i \in seps :
                    /\ \A j \in seps : i <= j
                    /\ route_key.t = "str"
                    /\ route_key.v = [k \in 1..(Len(name) - i) |-> name[i + k]]
            /\ "arguments" \in DOMAIN event =>
                 IF event["arguments"].t = "json"
                 THEN body.t = "dict" /\ json_dumps(body.v) = event["arguments"]
                 ELSE body = event["arguments"]

\* a tool name with two separators has been cut after the first one only, and
\* its JSON arguments decoded
C21_Witness ==
    /\ Normalized /\ ToolEnvelope
    /\ Cardinality(SeparatorsOf(event["toolName"].v)) = 2
    /\ route_key = Str(<<"b", Separator, "scoringCalculate">>)
    /\ event["arguments"].t = "json"
    /\ body = Dict(ScenarioB)
    /\ Responded /\ response.statusCode = 404

\* an envelope handler reads as a direct invocation: it has action and none of
\* httpMethod, resource, toolName
DirectEnvelope ==
    /\ "action" \in DOMAIN event
    /\ DOMAIN event \cap {"httpMethod", "resource", "toolName"} = {}

\* C22: for a direct envelope the routing key is the value of action, and the
\* body is the payload field when the envelope has one and the entire raw
\* envelope otherwise.
C22_DirectKeyAndBody ==
    (Normalized /\ DirectEnvelope) =>
        /\ route_type = "action"
        /\ route_key = event["action"]
        /\ "payload" \in DOMAIN event => body = event["payload"]
        /\ "payload" \notin DOMAIN event => body = Dict(event)

\* a scoring request sent without payload has been scored on the envelope
\* itself, the action field included
C22_Witness ==
    /\ Normalized /\ DirectEnvelope
    /\ "payload" \notin DOMAIN event
    /\ "housing_situation" \in DOMAIN event
    /\ body = Dict(event)
    /\ "action" \in DOMAIN body.v
    /\ Responded /\ response.statusCode = 200

\* a gateway request to one of the paths of the end-to-end test
E2ERequest ==
    /\ DOMAIN event \cap {"httpMethod", "resource"} # {}
    /\ route_type = "path"
    /\ route_key.t = "str" /\ Len(route_key.v) = 1
    /\ route_key.v[1] \in E2E_PATHS

\* C23: every gateway path the end-to-end test exercises resolves to a
\* registered handler of the router, so that a request to such a path is not
\* answered 404.
C23_E2EPathsRegistered ==
    /\ (pc \in {"resolved", "operated", "saved", "except"} /\ E2ERequest) => handler_fn # ""
    /\ (Responded /\ E2ERequest) => response.statusCode # 404

\* C28: a write carries the body's instance_id when the body supplies one
\* (trimmed), and the configured instance id only when the body supplies none
\* or an empty one; the contact id has no fallback: a write carries the body's
\* contact_id (trimmed), and a request without contact_id triggers no write,
\* whatever the configured instance id.
C28_InstanceFromBodyFirst ==
    /\ \A i \in 1..Len(writes) :
          /\ IF "instance_id" \in DOMAIN body.v /\ Truthy(body.v["instance_id"])
             THEN /\ body.v["instance_id"].t = "str"
                  /\ writes[i].InstanceId = strip(body.v["instance_id"].v)
             ELSE writes[i].InstanceId = strip(CONNECT_INSTANCE_ID.v)
          /\ "contact_id" \in DOMAIN body.v
          /\ body.v["contact_id"].t = "str"
          /\ writes[i].InitialContactId = strip(body.v["contact_id"].v)
    /\ (PersistenceRan /\ "contact_id" \notin DOMAIN body.v) => writes = <<>>

\* a write made with the body's instance id while another, valid instance id
\* is configured
C28_Witness ==
    /\ PersistenceRan
    /\ Len(writes) = 1
    /\ CONNECT_INSTANCE_ID = OtherInstance
    /\ RequestIs("instance_id", ValidInstance)
    /\ writes[1].InstanceId = ValidInstance.v
    /\ writes[1].InstanceId # CONNECT_INSTANCE_ID.v

\* the kind the precedence gives an envelope
KindOf(ev) ==
    IF DOMAIN ev \cap {"httpMethod", "resource"} # {} THEN "path"
    ELSE IF "toolName" \in DOMAIN ev THEN "tool"
    ELSE IF "action" \in DOMAIN ev THEN "action"
    ELSE "unknown"

\* the fields of the shapes below a kind in the precedence
LowerFields(kind) ==
    IF kind = "path" THEN {"toolName", "arguments", "action", "payload"}
    ELSE IF kind = "tool" THEN {"action", "payload"}
    ELSE {}

\* C29: every envelope that is normalized gets exactly one kind, by the fixed
\* precedence: Gateway if it has httpMethod or resource, else Tool if it has
\* toolName, else Direct if it has action; the key and the body are those of
\* the same envelope without the fields of the shapes lower in the precedence.
C29_ShapePrecedence ==
    Normalized =>
        LET kind == KindOf(event)
            kept == DOMAIN event \ LowerFields(kind)
            alone == _extract_route_and_body([k \in kept |-> event[k]])
        IN  /\ route_type = kind
            /\ alone.kind = "return"
            /\ route_key = alone.value.route_key
            /\ body = alone.value.body
            /\ (kind = "path")
                 => route_key \in {Get(event, "resource", Null), Get(event, "path", EmptyStr)}
            /\ (kind = "path" /\ "body" \in DOMAIN event /\ event["body"].t = "dict"
                    /\ Truthy(event["body"]))
                 => body = event["body"]
            /\ (kind = "tool" /\ "arguments" \in DOMAIN event
                    /\ event["arguments"].t = "dict")
                 => body = event["arguments"]

\* an envelope with the fields of all three shapes, each naming another
\* operation or body, has been handled as the gateway request it holds
C29_Witness ==
    /\ Normalized
    /\ {"httpMethod", "toolName", "action", "arguments", "payload"} \subseteq DOMAIN event
    /\ route_type = "path"
    /\ route_key = S("/scoring/calculate")
    /\ body = Dict(ScenarioB)
    /\ handler_fn = "handle_scoring"
    /\ Responded /\ response.statusCode = 200

\* C30: when the body holds two aliases of one canonical attribute with
\* different values that are neither None nor blank, a write carries one value
\* under the canonical name, that of the alias declared later in the
\* whitelist, whatever the order of the keys in the request.
C30_LaterAliasWins ==
    \A w \in 1..Len(writes) :
        \A i, j \in 1..Len(ATTR_MAP) :
            LET first == ATTR_MAP[i][1]
                second == ATTR_MAP[j][1]
                canonical == ATTR_MAP[j][2]
                sent(key) == /\ key \in DOMAIN body.v
                             /\ body.v[key].t # "null"
                             /\ strip(PyStr(body.v[key])) # <<>>
            IN  (/\ i < j
                 /\ ATTR_MAP[i][2] = canonical
                 /\ sent(first) /\ sent(second)
                 /\ body.v[first] # body.v[second])
                => /\ canonical \in DOMAIN writes[w].Attributes
                   /\ writes[w].Attributes[canonical] = Str(strip(PyStr(body.v[second])))

\* a request whose JSON text names zip_code before zipCode, and both aliases of
\* three more attributes, has been written with the later-declared alias of each
C30_Witness ==
    /\ Len(writes) = 1
    /\ "body" \in DOMAIN event /\ event["body"].t = "json"
    /\ event["body"].v[2] = Member("zip_code", S("29403"))
    /\ event["body"].v[4] = Member("zipCode", S("29401"))
    /\ writes[1].Attributes["zipCode"] = S("29403")
    /\ writes[1].Attributes["needCategory"] = S("food")
    /\ writes[1].Attributes["housingSituation"] = S("owner")
    /\ writes[1].Attributes["monthlyIncome"] = Str(PyStr(PyInt(950)))

-----------------------------------------------------------------------------
(* properties of the response step, checked under SpecResponse *)

====
